---- MODULE Spec2Model ----
(***************************************************************************)
(* A model of the ba_timeseries_gradients / grag_brainspace command line   *)
(* pipelines: the two main() drivers, input validation, persistence of the *)
(* result (HDF5 / JSON), and the connectivity-matrix kernel                *)
(* (_get_connectivity_matrix, _parcellate_timeseries).                     *)
(*                                                                         *)
(* Strings that the code inspects (file names, suffixes) are sequences of  *)
(* one-character strings, so that endswith / pathlib suffix are computed.  *)
(* A numpy array is a record [shape, data] with data in C (row-major)      *)
(* order.                                                                  *)
(***************************************************************************)
EXTENDS Integers, Sequences, FiniteSets, TLC

VARIABLES
    cli,               \* which package's main() runs: "ba" | "grag" | "none"
    args,              \* the parsed argparse.Namespace
    files,             \* main's local `files`
    fs,                \* the file system: path -> content
    fs0,               \* the file system when the run started (history)
    pc,                \* position of main()
    exc,               \* the exception the run ended with, if any
    calls,             \* the functions main() has called, in order (history)
    log,               \* the records handed to the package logger
    output_file,       \* main's local `output_file` / save's `filename`
    output_gradients,  \* compute_gradients' first result
    lambdas            \* compute_gradients' second result

mainVars == <<cli, args, files, fs, fs0, pc, exc, calls, log,
              output_file, output_gradients, lambdas>>

\* The connectivity kernel (gradients.py), called on its own.
VARIABLES
    kpc,               \* position inside the kernel function under study
    collection,        \* _get_connectivity_matrix's argument `files`
    correlation,       \* file -> what np.corrcoef yields for that file's data
    index,             \* the loop index of _get_connectivity_matrix
    group_z_matrix,    \* the accumulator of _get_connectivity_matrix
    timeseries,        \* the timeseries array being reshaped / parcellated
    parcellation_data, \* the flattened parcellation (or the parcellation passed)
    result,            \* the value the kernel function returned
    raised             \* the exception the kernel function raised, if any

kernelVars == <<kpc, collection, correlation, index, group_z_matrix,
                timeseries, parcellation_data, result, raised>>

vars == <<mainVars, kernelVars>>

----------------------------------------------------------------------------
(* Bounds of the model.                                                    *)

MaxFiles == 2       \* longest input file list
MaxDim == 2         \* largest extent of one axis of a saved array

----------------------------------------------------------------------------
(* Strings.                                                                *)

Max(S) == CHOOSE x \in S : \A y \in S : y <= x

\* str.endswith(suffix)
EndsWith(s, suffix) ==
    /\ Len(s) >= Len(suffix)
    /\ SubSeq(s, Len(s) - Len(suffix) + 1, Len(s)) = suffix

\* str.endswith(tuple_of_suffixes)
EndsWithAny(s, suffixes) == \E suffix \in suffixes : EndsWith(s, suffix)

\* str.rfind(c), 1-based; 0 when c does not occur
RFind(s, c) ==
    LET I == {i \in 1..Len(s) : s[i] = c}
    IN  IF I = {} THEN 0 ELSE Max(I)

\* pathlib.PurePath.name: the final path component
PathName(p) == SubSeq(p, RFind(p, "/") + 1, Len(p))

\* pathlib.PurePath.suffix: the last dot-suffix of the final component
PathSuffix(p) ==
    LET name == PathName(p)
        i == RFind(name, ".")
    IN  IF 1 < i /\ i < Len(name) THEN SubSeq(name, i, Len(name)) ELSE <<>>

Str_nii == <<"n", "i", "i">>
Str_nii_gz == <<"n", "i", "i", ".", "g", "z">>
Str_dot_nii == <<".", "n", "i", "i">>
Str_dot_nii_gz == <<".", "n", "i", "i", ".", "g", "z">>
Str_dot_gii == <<".", "g", "i", "i">>
Str_h5 == <<"h", "5">>
Str_json == <<"j", "s", "o", "n">>
Str_dot_h5 == <<".", "h", "5">>
Str_dot_json == <<".", "j", "s", "o", "n">>
Str_gradients_dot == <<"g", "r", "a", "d", "i", "e", "n", "t", "s", ".">>
Str_gradients_h5 == Str_gradients_dot \o Str_h5

\* names of input (timeseries) files
File_a_nii == <<"a", ".", "n", "i", "i">>
File_b_nii_gz == <<"b", ".", "n", "i", "i", ".", "g", "z">>
File_c_gii == <<"c", ".", "g", "i", "i">>
FileNames == {File_a_nii, File_b_nii_gz, File_c_gii}

\* grag-brainspace's --output
File_out_h5 == <<"o", "u", "t", ".", "h", "5">>

\* further names that utils.save may be handed
File_g_txt == <<"g", ".", "t", "x", "t">>
File_g == <<"g">>
File_hidden_h5 == <<".", "h", "5">>
File_dir_h5_g == <<"d", ".", "h", "5", "/", "g">>
File_g_h5_json == <<"g", ".", "h", "5", ".", "j", "s", "o", "n">>

\* the formats with the spelling 'hdf5' accepted too
OutputFormats_with_hdf5 == {Str_h5, Str_json, <<"h", "d", "f", "5">>}

OutputFormats == {Str_h5, Str_json}
BaOutputPaths == {Str_gradients_dot \o f : f \in OutputFormats}
SavePaths == BaOutputPaths \cup
    {File_out_h5, File_g_txt, File_g, File_hidden_h5, File_dir_h5_g, File_g_h5_json}
AllPaths == FileNames \cup SavePaths

----------------------------------------------------------------------------
(* numpy arrays and file contents.                                         *)

Product(shape) ==
    LET RECURSIVE Prod(_)
        Prod(i) == IF i > Len(shape) THEN 1 ELSE shape[i] * Prod(i + 1)
    IN  Prod(1)

\* the element at flat position i of a test array is base + i, so that a
\* transposition or a mix-up of two arrays is visible
Bases == {0, 10}

ArraysOfShape(shape) ==
    {[shape |-> shape, data |-> [i \in 1..Product(shape) |-> base + i]] :
        base \in Bases}

Arrays1D == UNION {ArraysOfShape(<<n>>) : n \in 1..MaxDim}
Arrays2D == UNION {ArraysOfShape(<<n, k>>) : n \in 1..MaxDim, k \in 1..MaxDim}

Absent == [kind |-> "absent"]
TimeseriesFile == [kind |-> "data"]
Exists(fsys, path) == fsys[path].kind # "absent"

NoExc == [type |-> "none", message |-> ""]
Raise(type, message) == [type |-> type, message |-> message]

----------------------------------------------------------------------------
(* JSON: ndarray.tolist, json.dump, json.load, numpy.array.                *)

Num(n) == [k |-> "num", n |-> n]
List(items) == [k |-> "list", items |-> items]

\* numpy.ndarray.tolist: nested lists, one level per axis
RECURSIVE ToListAt(_, _, _)
ToListAt(a, axis, offset) ==
    IF axis > Len(a.shape)
    THEN Num(a.data[offset + 1])
    ELSE LET stride == Product(SubSeq(a.shape, axis + 1, Len(a.shape)))
         IN  List([i \in 1..a.shape[axis] |->
                      ToListAt(a, axis + 1, offset + (i - 1) * stride)])

ToList(a) == ToListAt(a, 1, 0)

\* numpy.array(nested_list): the shape from the nesting, the data flattened
RECURSIVE ShapeOf(_)
ShapeOf(v) ==
    IF v.k = "num" THEN <<>>
    ELSE <<Len(v.items)>> \o (IF Len(v.items) = 0 THEN <<>> ELSE ShapeOf(v.items[1]))

RECURSIVE FlatOf(_)
FlatOf(v) ==
    LET RECURSIVE Cat(_)
        Cat(i) == IF i > Len(v.items) THEN <<>> ELSE FlatOf(v.items[i]) \o Cat(i + 1)
    IN  IF v.k = "num" THEN <<v.n>> ELSE Cat(1)

FromList(v) == [shape |-> ShapeOf(v), data |-> FlatOf(v)]

Tok(t) == [t |-> t]

\* json.dump of a number or a (nested) list, as a token sequence
RECURSIVE DumpValue(_)
DumpValue(v) ==
    LET RECURSIVE Items(_)
        Items(i) ==
            IF i > Len(v.items) THEN <<>>
            ELSE (IF i > 1 THEN <<Tok(",")>> ELSE <<>>)
                 \o DumpValue(v.items[i]) \o Items(i + 1)
    IN  IF v.k = "num" THEN <<[t |-> "num", n |-> v.n]>>
        ELSE <<Tok("[")>> \o Items(1) \o <<Tok("]")>>

\* json.dump of a dict, given as its (key, value) pairs in insertion order
JsonDump(pairs) ==
    LET RECURSIVE Members(_)
        Members(i) ==
            IF i > Len(pairs) THEN <<>>
            ELSE (IF i > 1 THEN <<Tok(",")>> ELSE <<>>)
                 \o <<[t |-> "str", s |-> pairs[i][1]], Tok(":")>>
                 \o DumpValue(pairs[i][2]) \o Members(i + 1)
    IN  <<Tok("{")>> \o Members(1) \o <<Tok("}")>>

\* json.load: a number or list starting at token i; [val, next]
RECURSIVE ParseValue(_, _)
ParseValue(toks, i) ==
    LET RECURSIVE ParseItems(_, _)
        ParseItems(j, acc) ==
            IF toks[j].t = "]" THEN [val |-> List(acc), next |-> j + 1]
            ELSE LET r == ParseValue(toks, IF toks[j].t = "," THEN j + 1 ELSE j)
                 IN  ParseItems(r.next, Append(acc, r.val))
    IN  IF toks[i].t = "num" THEN [val |-> Num(toks[i].n), next |-> i + 1]
        ELSE ParseItems(i + 1, <<>>)

\* json.load of an object: the dict, as a function from keys to values
JsonLoad(toks) ==
    LET RECURSIVE ParseMembers(_, _)
        ParseMembers(j, acc) ==
            IF toks[j].t = "}" THEN acc
            ELSE LET k == IF toks[j].t = "," THEN j + 1 ELSE j
                     r == ParseValue(toks, k + 2)
                 IN  ParseMembers(r.next, (toks[k].s :> r.val) @@ acc)
    IN  ParseMembers(2, <<>>)

----------------------------------------------------------------------------
(* Persistence: utils.save, save_hdf5, save_json, cli._save_numpy_array.   *)

EmptyH5 == [kind |-> "h5", datasets |-> <<>>]

\* h5py.File(filename, "a"): keeps what an existing HDF5 file holds
H5FileAppend(fsys, filename) ==
    IF fsys[filename].kind = "h5" THEN fsys[filename] ELSE EmptyH5

\* h5py.File(filename, "w"): creates the file, truncating it if it exists
H5FileW(fsys, filename) == EmptyH5

\* h5py.Group.create_dataset(name, data=data)
create_dataset(file, name, data) ==
    [file EXCEPT !.datasets = (name :> data) @@ @]

save_hdf5(gradients, lams, filename, fsys) ==
    [fsys EXCEPT ![filename] =
        create_dataset(
            create_dataset(H5FileW(fsys, filename), "gradients", gradients),
            "lambdas", lams)]

save_json(gradients, lams, filename, fsys) ==
    [fsys EXCEPT ![filename] =
        [kind |-> "json",
         text |-> JsonDump(<< <<"gradients", ToList(gradients)>>,
                              <<"lambdas", ToList(lams)>> >>)]]

\* the writer picked by str.endswith instead of pathlib's suffix
save_by_endswith(gradients, lams, filename, fsys) ==
    IF EndsWith(filename, Str_dot_h5)
    THEN [fs |-> save_hdf5(gradients, lams, filename, fsys),
          exc |-> NoExc, writer |-> "save_hdf5"]
    ELSE IF EndsWith(filename, Str_dot_json)
    THEN [fs |-> save_json(gradients, lams, filename, fsys),
          exc |-> NoExc, writer |-> "save_json"]
    ELSE [fs |-> fsys, writer |-> "none",
          exc |-> Raise("InternalError", "Unsupported file type")]

\* ba_timeseries_gradients.utils.save: [fs, exc, writer]
save(gradients, lams, filename, fsys) ==
    LET suffix == PathSuffix(filename)
    IN  IF suffix = Str_dot_h5
        THEN [fs |-> save_hdf5(gradients, lams, filename, fsys),
              exc |-> NoExc, writer |-> "save_hdf5"]
        ELSE IF suffix = Str_dot_json
        THEN [fs |-> save_json(gradients, lams, filename, fsys),
              exc |-> NoExc, writer |-> "save_json"]
        ELSE [fs |-> fsys, writer |-> "none",
              exc |-> Raise("InternalError", "Unsupported file type")]

\* grag_brainspace.cli._save_numpy_array: always an HDF5 file
save_numpy_array(gradients, lams, filename, fsys) ==
    [fs |-> [fsys EXCEPT ![filename] =
                create_dataset(
                    create_dataset(H5FileW(fsys, filename), "gradients", gradients),
                    "lambdas", lams)],
     exc |-> NoExc, writer |-> "_save_numpy_array"]

\* what reading a file back yields: a function from entry names to arrays
ReadBack(content) ==
    IF content.kind = "h5" THEN content.datasets
    ELSE LET d == JsonLoad(content.text)
         IN  [key \in DOMAIN d |-> FromList(d[key])]

----------------------------------------------------------------------------
(* Input validation.                                                       *)

NotGiven == [given |-> FALSE, val |-> <<>>]     \* an argument left at None
Given(v) == [given |-> TRUE, val |-> v]

StrFile(name) == [name |-> name, is_path |-> FALSE]    \* a str entry
PathFile(name) == [name |-> name, is_path |-> TRUE]    \* a pathlib.Path entry

\* cli.py:240 : the existence test always looks at gradients.h5
ba_check_output_exists(a, fsys) ==
    IF Exists(fsys, Str_gradients_h5) /\ ~a.force
    THEN Raise("InputError", "Output file already exists. Use --force to overwrite.")
    ELSE NoExc

\* a validation step that never raises
check_skipped(fl) == NoExc

\* cli.py:245
ba_check_no_files(fl) ==
    IF fl = <<>> THEN Raise("InputError", "No input files found.") ELSE NoExc

\* args.parcellation is None and files[0].endswith(("nii", "nii.gz"))
check_volume_parcellation(a, fl) ==
    IF a.parcellation.given THEN NoExc
    ELSE IF fl = <<>> THEN Raise("IndexError", "list index out of range")
    ELSE IF fl[1].is_path
    THEN Raise("AttributeError", "'PosixPath' object has no attribute 'endswith'")
    ELSE IF EndsWithAny(fl[1].name, {Str_nii, Str_nii_gz})
    THEN Raise("InputError",
               "Must provide a parcellation if input files are volume files.")
    ELSE NoExc

\* ba_timeseries_gradients.cli._raise_invalid_input
ba_raise_invalid_input(a, fl, fsys) ==
    LET e1 == ba_check_output_exists(a, fsys)
        e2 == ba_check_no_files(fl)
    IN  IF e1 # NoExc THEN e1
        ELSE IF e2 # NoExc THEN e2
        ELSE check_volume_parcellation(a, fl)

\* grag_brainspace.cli._raise_invalid_input, first check
grag_check_input_given(a, fl) ==
    IF \/ (~a.input_file.given /\ ~a.input_list.given)
       \/ (a.input_file.given /\ a.input_list.given)
       \/ fl = <<>>
    THEN Raise("InputError",
               "You must provide either an input file or a non-empty input list.")
    ELSE NoExc

grag_check_output_exists(a, fsys) ==
    IF Exists(fsys, a.output) /\ ~a.force
    THEN Raise("InputError", "Output file already exists.")
    ELSE NoExc

\* a file-type check that looks at each file on its own
check_each_file_type(fl) ==
    IF \E i \in 1..Len(fl) :
          ~ EndsWithAny(fl[i].name, {Str_dot_nii, Str_dot_nii_gz, Str_dot_gii})
    THEN Raise("InputError",
               "Input file(s) must be either be GIFTI or NIFTI files, not both.")
    ELSE NoExc

\* str(filename).endswith(...) accepts str and Path entries alike
grag_check_file_types(fl) ==
    IF /\ ~ \A i \in 1..Len(fl) :
                EndsWithAny(fl[i].name, {Str_dot_nii, Str_dot_nii_gz})
       /\ ~ \A i \in 1..Len(fl) : EndsWith(fl[i].name, Str_dot_gii)
    THEN Raise("InputError",
               "Input file(s) must be either be GIFTI or NIFTI files, not both.")
    ELSE NoExc

\* grag_brainspace.cli._raise_invalid_input
grag_raise_invalid_input(a, fl, fsys) ==
    LET e1 == grag_check_input_given(a, fl)
        e2 == grag_check_output_exists(a, fsys)
        e3 == grag_check_file_types(fl)
    IN  IF e1 # NoExc THEN e1
        ELSE IF e2 # NoExc THEN e2
        ELSE IF e3 # NoExc THEN e3
        ELSE check_volume_parcellation(a, fl)

\* a parse that returns the lines without looking at them
parse_input_list_unchecked(input_list, fsys) ==
    IF ~input_list.given
    THEN [files |-> <<>>,
          exc |-> Raise("TypeError", "expected str, bytes or os.PathLike object")]
    ELSE [files |-> [i \in 1..Len(input_list.val) |-> StrFile(input_list.val[i])],
          exc |-> NoExc]

\* grag_brainspace.cli._parse_input_list: [files, exc]
parse_input_list(input_list, fsys) ==
    IF ~input_list.given
    THEN [files |-> <<>>,
          exc |-> Raise("TypeError", "expected str, bytes or os.PathLike object")]
    ELSE LET input_files == input_list.val
         IN  IF input_files = <<>>
             THEN [files |-> <<>>, exc |-> Raise("InputError", "Input list is empty.")]
             ELSE IF ~ \A i \in 1..Len(input_files) : Exists(fsys, input_files[i])
             THEN [files |-> <<>>,
                   exc |-> Raise("InputError", "Not all files in input list exist.")]
             ELSE IF Cardinality({input_files[i] : i \in 1..Len(input_files)})
                        # Len(input_files)
             THEN [files |-> <<>>,
                   exc |-> Raise("InputError", "Input list contains duplicate files.")]
             ELSE [files |-> [i \in 1..Len(input_files) |-> StrFile(input_files[i])],
                   exc |-> NoExc]

----------------------------------------------------------------------------
(* The two main() drivers.                                                 *)

NameLists == UNION {[1..n -> FileNames] : n \in 0..MaxFiles}
StrLists == {[i \in DOMAIN l |-> StrFile(l[i])] : l \in NameLists}
PathLists == {[i \in DOMAIN l |-> PathFile(l[i])] : l \in NameLists}

File_parcellation == <<"p", ".", "n", "i", "i">>
Parcellations == {NotGiven, Given(File_parcellation)}

\* what an output file may hold before the run
OldH5 == [kind |-> "h5",
          datasets |-> ("gradients" :> [shape |-> <<1>>, data |-> <<99>>])
                       @@ ("old" :> [shape |-> <<1>>, data |-> <<98>>])]
OldJson == [kind |-> "json",
            text |-> JsonDump(<< <<"old", List(<<Num(98)>>)>> >>)]

\* BaseLoggingError.__init__ logs the message at error level
\* the exception classes of a package: exceptions.py of ba_timeseries_gradients
\* and of grag_brainspace
LoggingErrorTypes(package) ==
    IF package = "grag"
    THEN {"BaseLoggingError", "InputError", "InternalError", "BrainSpaceError"}
    ELSE {"BaseLoggingError", "InputError", "InternalError"}

\* an __init__ that logs at warning level
LogOfExc_as_warning(e) ==
    IF e.type \in LoggingErrorTypes("grag")
    THEN <<[level |-> "warning", msg |-> e.message]>>
    ELSE <<>>

\* BaseLoggingError.__init__: logger.error(self.message); the subclasses
\* inherit it, every other exception logs nothing
LogOfExc(e) ==
    IF e.type \in LoggingErrorTypes("grag")
    THEN <<[level |-> "error", msg |-> e.message]>>
    ELSE <<>>

\* the results compute_gradients may return in a run of main()
Results ==
    {[gradients |-> g, lambdas |-> l] :
        g \in ArraysOfShape(<<2, 1>>), l \in ArraysOfShape(<<1>>)}

\* the exceptions compute_gradients may raise on a non-empty file list
ComputeErrors ==
    {Raise("InputError", "Parcellation dimensions do not match timeseries dimensions."),
     Raise("InputError", "Input image must be a NIfTI or GIFTI image."),
     Raise("Exception", "raised by nibabel, numpy or brainspace")}

BaArgs ==
    [force : BOOLEAN, dry_run : BOOLEAN, output_format : OutputFormats,
     parcellation : Parcellations, bids_dir_exists : BOOLEAN,
     input_file : {NotGiven}, input_list : {NotGiven}, output : {<<>>}]

GragArgs ==
    [force : BOOLEAN, dry_run : {FALSE}, output_format : {<<>>},
     parcellation : Parcellations, bids_dir_exists : {TRUE},
     input_file : {NotGiven} \cup {Given(l) : l \in PathLists},
     input_list : {NotGiven} \cup {Given(l) : l \in NameLists},
     output : {File_out_h5}]

\* file systems a run of main() may start in: the input files exist, but for
\* at most one of them; each output file is absent or left by an earlier run
InitialFileSystems(outputs) ==
    {[p \in AllPaths |->
        IF p \in FileNames THEN (IF p \in missing THEN Absent ELSE TimeseriesFile)
        ELSE IF p \in old THEN (IF PathSuffix(p) = Str_dot_json THEN OldJson ELSE OldH5)
        ELSE Absent] :
        missing \in {{}} \cup {{f} : f \in FileNames}, old \in SUBSET outputs}

\* the kernel variables while a driver or a persistence function runs
KernelIdle ==
    /\ kpc = "idle"
    /\ collection = <<>>
    /\ correlation = <<>>
    /\ index = 0
    /\ group_z_matrix = <<>>
    /\ timeseries = <<>>
    /\ parcellation_data = <<>>
    /\ result = <<>>
    /\ raised = NoExc

InitMain ==
    /\ cli \in {"ba", "grag"}
    /\ args \in (IF cli = "ba" THEN BaArgs ELSE GragArgs)
    /\ fs \in InitialFileSystems(IF cli = "ba" THEN BaOutputPaths ELSE {File_out_h5})
    /\ fs0 = fs
    /\ files = <<>>
    /\ pc = "start"
    /\ exc = NoExc
    /\ calls = <<>>
    /\ log = <<>>
    /\ output_file = <<>>
    /\ output_gradients = <<>>
    /\ lambdas = <<>>
    /\ KernelIdle

\* cli.py:27-28 : files = _get_bids_files(args); output_file = ...
BaGetFiles ==
    /\ cli = "ba" /\ pc = "start"
    /\ calls' = Append(calls, "_get_bids_files")
    /\ IF args.bids_dir_exists
       THEN /\ \E fl \in StrLists :
                  /\ \A i \in 1..Len(fl) : Exists(fs, fl[i].name)
                  /\ files' = fl
            /\ log' = Append(log, [level |-> "info", msg |-> "Found %d input files."])
            /\ output_file' = Str_gradients_dot \o args.output_format
            /\ pc' = "got_files"
            /\ exc' = exc
       ELSE /\ exc' = Raise("ValueError", "BIDS root does not exist")
            /\ pc' = "raised"
            /\ UNCHANGED <<files, log, output_file>>
    /\ UNCHANGED <<cli, args, fs, fs0, output_gradients, lambdas>>
    /\ UNCHANGED kernelVars

\* cli.py:30-33
BaDryRun ==
    /\ cli = "ba" /\ pc = "got_files" /\ args.dry_run
    /\ log' = log \o <<[level |-> "info", msg |-> "Detected input files:\n%s"],
                       [level |-> "info", msg |-> "Output file: %s"]>>
    /\ pc' = "returned"
    /\ UNCHANGED <<cli, args, files, fs, fs0, exc, calls,
                   output_file, output_gradients, lambdas>>
    /\ UNCHANGED kernelVars

\* validation run whether or not --dry-run was given
BaValidate_ignoring_dry_run ==
    /\ cli = "ba" /\ pc = "got_files"
    /\ calls' = Append(calls, "_raise_invalid_input")
    /\ exc' = ba_raise_invalid_input(args, files, fs)
    /\ log' = log \o LogOfExc(exc')
    /\ pc' = IF exc' = NoExc THEN "validated" ELSE "raised"
    /\ UNCHANGED <<cli, args, files, fs, fs0, output_file, output_gradients, lambdas>>
    /\ UNCHANGED kernelVars

\* cli.py:35-36
BaValidate ==
    /\ cli = "ba" /\ pc = "got_files" /\ ~args.dry_run
    /\ calls' = Append(calls, "_raise_invalid_input")
    /\ exc' = ba_raise_invalid_input(args, files, fs)
    /\ log' = log \o LogOfExc(exc')
    /\ pc' = IF exc' = NoExc THEN "validated" ELSE "raised"
    /\ UNCHANGED <<cli, args, files, fs, fs0, output_file, output_gradients, lambdas>>
    /\ UNCHANGED kernelVars

\* grag cli.py:26 : files = args.input_file or _parse_input_list(args.input_list)
GragGetFiles ==
    /\ cli = "grag" /\ pc = "start"
    /\ IF args.input_file.given /\ args.input_file.val # <<>>
       THEN /\ files' = args.input_file.val
            /\ exc' = exc
            /\ calls' = calls
       ELSE LET r == parse_input_list(args.input_list, fs)
            IN  /\ files' = r.files
                /\ exc' = r.exc
                /\ calls' = Append(calls, "_parse_input_list")
    /\ log' = log \o LogOfExc(exc')
    /\ pc' = IF exc' = NoExc THEN "got_files" ELSE "raised"
    /\ output_file' = args.output
    /\ UNCHANGED <<cli, args, fs, fs0, output_gradients, lambdas>>
    /\ UNCHANGED kernelVars

\* the exception built (and logged) but not raised
GragValidate_without_raise ==
    /\ cli = "grag" /\ pc = "got_files"
    /\ calls' = Append(calls, "_raise_invalid_input")
    /\ log' = log \o LogOfExc(grag_raise_invalid_input(args, files, fs))
    /\ exc' = exc
    /\ pc' = "validated"
    /\ UNCHANGED <<cli, args, files, fs, fs0, output_file, output_gradients, lambdas>>
    /\ UNCHANGED kernelVars

\* grag cli.py:28-29
GragValidate ==
    /\ cli = "grag" /\ pc = "got_files"
    /\ calls' = Append(calls, "_raise_invalid_input")
    /\ exc' = grag_raise_invalid_input(args, files, fs)
    /\ log' = log \o LogOfExc(exc')
    /\ pc' = IF exc' = NoExc THEN "validated" ELSE "raised"
    /\ UNCHANGED <<cli, args, files, fs, fs0, output_file, output_gradients, lambdas>>
    /\ UNCHANGED kernelVars

\* main's call of gradients.compute_gradients: it returns a result or raises
Compute ==
    /\ cli \in {"ba", "grag"} /\ pc = "validated"
    /\ calls' = Append(calls, "compute_gradients")
    /\ \/ /\ files # <<>>
          /\ \E r \in Results :
                /\ output_gradients' = r.gradients
                /\ lambdas' = r.lambdas
          /\ exc' = exc
          /\ pc' = "computed"
       \/ /\ exc' \in (IF files = <<>>
                       THEN {Raise("ValueError", "No files provided.")}
                       ELSE ComputeErrors)
          /\ pc' = "raised"
          /\ UNCHANGED <<output_gradients, lambdas>>
    /\ log' = log \o LogOfExc(exc')
    /\ UNCHANGED <<cli, args, files, fs, fs0, output_file>>
    /\ UNCHANGED kernelVars

\* cli.py:48-49 : utils.save(output_gradients, lambdas, output_file)
BaSave ==
    /\ cli = "ba" /\ pc = "computed"
    /\ LET r == save(output_gradients, lambdas, output_file, fs)
       IN  /\ fs' = r.fs
           /\ exc' = r.exc
           /\ calls' = calls \o <<"save">>
                       \o (IF r.writer = "none" THEN <<>> ELSE <<r.writer>>)
    /\ log' = log \o <<[level |-> "info", msg |-> "Saving gradient map to %s."]>>
                  \o LogOfExc(exc')
    /\ pc' = IF exc' = NoExc THEN "saved" ELSE "raised"
    /\ UNCHANGED <<cli, args, files, fs0, output_file, output_gradients, lambdas>>
    /\ UNCHANGED kernelVars

\* grag cli.py:41-42 : _save_numpy_array(output_gradients, lambdas, args.output)
GragSave ==
    /\ cli = "grag" /\ pc = "computed"
    /\ LET r == save_numpy_array(output_gradients, lambdas, args.output, fs)
       IN  /\ fs' = r.fs
           /\ exc' = r.exc
           /\ calls' = calls \o <<"save", r.writer>>
    /\ log' = log \o <<[level |-> "info", msg |-> "Saving gradient map to %s..."]>>
    /\ pc' = "saved"
    /\ UNCHANGED <<cli, args, files, fs0, output_file, output_gradients, lambdas>>
    /\ UNCHANGED kernelVars

NextMain ==
    \/ BaGetFiles \/ BaDryRun \/ BaValidate \/ BaSave
    \/ GragGetFiles \/ GragValidate \/ GragSave
    \/ Compute

Spec == InitMain /\ [][NextMain]_vars

----------------------------------------------------------------------------
(* The persistence functions called on their own, with any file name.      *)

InitSave ==
    /\ cli = "none"
    /\ args = <<>>
    /\ files = <<>>
    /\ output_file \in SavePaths
    /\ fs \in {[p \in AllPaths |-> IF p = output_file THEN old ELSE Absent] :
                  old \in {Absent, OldH5, OldJson}}
    /\ fs0 = fs
    /\ pc = "computed"
    /\ exc = NoExc
    /\ calls = <<>>
    /\ log = <<>>
    /\ output_gradients \in Arrays2D
    /\ lambdas \in Arrays1D
    /\ KernelIdle

\* utils.save(output_gradients, lambdas, filename)
CallSave ==
    /\ cli = "none" /\ pc = "computed"
    /\ LET r == save(output_gradients, lambdas, output_file, fs)
       IN  /\ fs' = r.fs
           /\ exc' = r.exc
           /\ calls' = calls \o <<"save">>
                       \o (IF r.writer = "none" THEN <<>> ELSE <<r.writer>>)
    /\ log' = log \o LogOfExc(exc')
    /\ pc' = IF exc' = NoExc THEN "saved" ELSE "raised"
    /\ UNCHANGED <<cli, args, files, fs0, output_file, output_gradients, lambdas>>
    /\ UNCHANGED kernelVars

\* utils.save_hdf5(output_gradients, lambdas, filename)
CallSaveHdf5 ==
    /\ cli = "none" /\ pc = "computed"
    /\ fs' = save_hdf5(output_gradients, lambdas, output_file, fs)
    /\ calls' = Append(calls, "save_hdf5")
    /\ pc' = "saved"
    /\ UNCHANGED <<cli, args, files, fs0, exc, log,
                   output_file, output_gradients, lambdas>>
    /\ UNCHANGED kernelVars

\* utils.save_json(output_gradients, lambdas, filename)
CallSaveJson ==
    /\ cli = "none" /\ pc = "computed"
    /\ fs' = save_json(output_gradients, lambdas, output_file, fs)
    /\ calls' = Append(calls, "save_json")
    /\ pc' = "saved"
    /\ UNCHANGED <<cli, args, files, fs0, exc, log,
                   output_file, output_gradients, lambdas>>
    /\ UNCHANGED kernelVars

NextSave == CallSave \/ CallSaveHdf5 \/ CallSaveJson

SpecSave == InitSave /\ [][NextSave]_vars

----------------------------------------------------------------------------
(* Properties of the drivers and of persistence.                           *)

Called(name) == \E i \in 1..Len(calls) : calls[i] = name

IsVolumeName(name) == EndsWithAny(name, {Str_dot_nii, Str_dot_nii_gz})

\* C3 (as claimed): in the ba CLI, once _raise_invalid_input has run, an
\* output file output_dir/gradients.<output_format> that existed without
\* --force has made it raise InputError, for h5 and for json alike.
C3_ExistingOutputRaises ==
    (/\ cli = "ba"
     /\ Called("_raise_invalid_input")
     /\ Exists(fs0, output_file)
     /\ ~args.force)
    => (exc.type = "InputError" /\ pc = "raised")

\* C4 (as claimed): in both CLIs, once _raise_invalid_input has run with no
\* parcellation and a NIFTI volume anywhere in the file list, of str or of
\* Path entries, it has raised InputError and compute_gradients is not called.
C4_VolumeWithoutParcellationRaises ==
    (/\ cli \in {"ba", "grag"}
     /\ Called("_raise_invalid_input")
     /\ ~args.parcellation.given
     /\ \E i \in 1..Len(files) : IsVolumeName(files[i].name))
    => (exc.type = "InputError" /\ pc = "raised")

\* C5: a ba run without --dry-run whose BIDS query returned no files ends,
\* once validation has run, with InputError (never IndexError from files[0]),
\* and calls neither compute_gradients nor save; nothing is written.
C5_NoFilesEndsInInputError ==
    (/\ cli = "ba"
     /\ ~args.dry_run
     /\ Called("_get_bids_files") /\ args.bids_dir_exists
     /\ files = <<>>
     /\ pc # "got_files")
    => (/\ pc = "raised"
        /\ exc.type = "InputError"
        /\ calls = <<"_get_bids_files", "_raise_invalid_input">>
        /\ fs = fs0)

C5_Witness ==
    /\ cli = "ba" /\ pc = "raised" /\ files = <<>>
    /\ Called("_raise_invalid_input")
    /\ ~args.parcellation.given
    /\ exc = Raise("InputError", "No input files found.")

\* C6: with --dry-run, main never validates, computes or saves, and the
\* file system stays as it was; it returns after logging the detected input
\* files and the output path, whatever the files and the output directory.
C6_DryRunOnlyLogs ==
    (cli = "ba" /\ args.dry_run)
    => (/\ ~Called("_raise_invalid_input")
        /\ ~Called("compute_gradients")
        /\ ~Called("save")
        /\ fs = fs0
        /\ pc \in {"start", "got_files", "returned", "raised"}
        /\ (pc = "raised" => ~args.bids_dir_exists)
        /\ (pc = "returned" =>
                /\ Len(log) >= 2
                /\ log[Len(log) - 1].msg = "Detected input files:\n%s"
                /\ log[Len(log)].msg = "Output file: %s"))

C6_Witness ==
    /\ cli = "ba" /\ args.dry_run /\ pc = "returned"
    /\ files = <<>>
    /\ Exists(fs, output_file)
    /\ ~args.force

\* the place of a function in main's sequence of steps
StepRank(name) ==
    CASE name \in {"_get_bids_files", "_parse_input_list"} -> 1
      [] name = "_raise_invalid_input" -> 2
      [] name = "compute_gradients" -> 3
      [] name = "save" -> 4
      [] OTHER -> 5

ValidationOf(c, a, fl, fsys) ==
    IF c = "ba" THEN ba_raise_invalid_input(a, fl, fsys)
    ELSE grag_raise_invalid_input(a, fl, fsys)

C8_WriterBySuffix ==
    (cli = "none" /\ Called("save"))
    => LET suffix == PathSuffix(output_file)
       IN  /\ suffix = Str_dot_h5 =>
                calls = <<"save", "save_hdf5">> /\ exc = NoExc
                /\ fs[output_file].kind = "h5"
           /\ suffix = Str_dot_json =>
                calls = <<"save", "save_json">> /\ exc = NoExc
                /\ fs[output_file].kind = "json"
           /\ suffix \notin {Str_dot_h5, Str_dot_json} =>
                calls = <<"save">> /\ exc.type = "InternalError"
                /\ pc = "raised" /\ fs = fs0

C8_Witness ==
    /\ cli = "none" /\ Called("save")
    /\ output_file = File_hidden_h5
    /\ exc.type = "InternalError"
    /\ fs0[output_file] = OldH5

\* C9: after save_hdf5 or save_json has written (gradients, lambdas), reading
\* the file back yields exactly the two entries gradients and lambdas, equal
\* to the arrays passed in, whatever the file held before; no other file
\* changes.
C9_RoundTrip ==
    (cli = "none" /\ pc = "saved")
    => LET back == ReadBack(fs[output_file])
       IN  /\ DOMAIN back = {"gradients", "lambdas"}
           /\ back["gradients"] = output_gradients
           /\ back["lambdas"] = lambdas
           /\ \A p \in AllPaths : p # output_file => fs[p] = fs0[p]

C9_Witness ==
    /\ cli = "none" /\ pc = "saved"
    /\ fs0[output_file] = OldH5
    /\ fs[output_file].kind = "h5"
    /\ output_gradients.shape = <<2, 2>>

----------------------------------------------------------------------------
(* Exact arithmetic for the Fisher transform.                              *)
(*                                                                         *)
(* Correlations are rationals num/den.  np.arctanh maps r to               *)
(* ln((1 + r) / (1 - r)) / 2; the model measures z in units of ln(3) / 2,  *)
(* so that z = k for r = (3^k - 1) / (3^k + 1): 0, 1/2, 4/5, 13/14, ...    *)
(* z values are rationals too (an average of whole z's need not be whole), *)
(* with the IEEE values inf, -inf and nan.  np.tanh of a z that is not a   *)
(* whole number of units is irrational; it is kept as the symbolic value   *)
(* tanh(num/den).                                                          *)

MaxK == 2           \* correlations range over r(k), -MaxK <= k <= MaxK, and +-1

Abs(n) == IF n < 0 THEN -n ELSE n

RECURSIVE GCD(_, _)
GCD(a, b) == IF b = 0 THEN a ELSE GCD(b, a % b)

\* the rational num/den (den # 0) in lowest terms with a positive denominator
Rat(kind, num, den) ==
    LET g == GCD(Abs(num), Abs(den))
        sgn == IF den < 0 THEN -1 ELSE 1
    IN  [kind |-> kind, num |-> sgn * (num \div g), den |-> sgn * (den \div g)]

Special(kind) == [kind |-> kind, num |-> 0, den |-> 1]
PosInf == Special("inf")
NegInf == Special("-inf")
NaN == Special("nan")

\* the exponent k with 3^k = n
Log3(n) == CHOOSE k \in 0..(2 * MaxK + 2) : 3 ^ k = n

\* np.arctanh of a correlation, in units of ln(3) / 2
arctanh(r) ==
    IF r.kind = "nan" \/ Abs(r.num) > r.den THEN NaN
    ELSE IF r.num = r.den THEN PosInf
    ELSE IF r.num = -r.den THEN NegInf
    ELSE LET q == Rat("fin", r.den + r.num, r.den - r.num)
         IN  IF q.den = 1 THEN Rat("fin", Log3(q.num), 1)
             ELSE Rat("fin", -Log3(q.den), 1)

\* np.tanh of a z value
tanh(z) ==
    IF z.kind = "nan" THEN NaN
    ELSE IF z.kind = "inf" THEN Rat("rat", 1, 1)
    ELSE IF z.kind = "-inf" THEN Rat("rat", -1, 1)
    ELSE IF z.den # 1 THEN [kind |-> "tanh", num |-> z.num, den |-> z.den]
    ELSE IF z.num >= 0 THEN Rat("rat", 3 ^ z.num - 1, 3 ^ z.num + 1)
    ELSE Rat("rat", 1 - 3 ^ (-z.num), 3 ^ (-z.num) + 1)

\* z / n for a positive integer n
ZDiv(z, n) == IF z.kind = "fin" THEN Rat("fin", z.num, z.den * n) ELSE z

\* IEEE addition: nan is absorbing, inf + -inf is nan
ZAdd(a, b) ==
    IF a.kind = "nan" \/ b.kind = "nan" THEN NaN
    ELSE IF a.kind = "fin" /\ b.kind = "fin"
    THEN Rat("fin", a.num * b.den + b.num * a.den, a.den * b.den)
    ELSE IF a.kind = "fin" THEN b
    ELSE IF b.kind = "fin" THEN a
    ELSE IF a.kind = b.kind THEN a
    ELSE NaN

\* the correlation r(k) = tanh(k ln(3) / 2)
CorrOfK(k) == tanh(Rat("fin", k, 1))

CorrValues == {CorrOfK(k) : k \in (-MaxK)..MaxK} \cup {Rat("rat", 1, 1), Rat("rat", -1, 1)}

\* element-wise application to a matrix (an array [shape, data])
arctanh_array(a) == [a EXCEPT !.data = [i \in DOMAIN a.data |-> arctanh(a.data[i])]]

tanh_array(a) == [a EXCEPT !.data = [i \in DOMAIN a.data |-> tanh(a.data[i])]]

\* the 2 x 2 correlation matrix with unit diagonal and off-diagonal r
CorrMatrix(r) ==
    [shape |-> <<2, 2>>, data |-> <<Rat("rat", 1, 1), r, r, Rat("rat", 1, 1)>>]

----------------------------------------------------------------------------
(* gradients._get_connectivity_matrix: the accumulation over the files.    *)

\* the z matrix left as it is: a sum over the files, not a mean
undivided(z_matrix, n) == z_matrix

\* z_matrix / len(files)
divide(z_matrix, n) ==
    [z_matrix EXCEPT !.data = [i \in DOMAIN z_matrix.data |-> ZDiv(z_matrix.data[i], n)]]

\* an accumulator reset by every file, not only the first
accumulate_overwriting(i, group, z_matrix, n) == divide(z_matrix, n)

\* an accumulator that divides by the number of files seen so far
accumulate_dividing_by_position(i, group, z_matrix, n) ==
    IF i = 0
    THEN divide(z_matrix, 1)
    ELSE [group EXCEPT !.data =
            [e \in DOMAIN group.data |->
                ZAdd(group.data[e], divide(z_matrix, i + 1).data[e])]]

\* gradients.py:103-106 : the accumulator after file number i (0-based)
accumulate(i, group, z_matrix, n) ==
    IF i = 0
    THEN divide(z_matrix, n)
    ELSE [group EXCEPT !.data =
            [e \in DOMAIN group.data |->
                ZAdd(group.data[e], divide(z_matrix, n).data[e])]]

InitConn ==
    /\ kpc = "called"
    /\ collection \in NameLists
    /\ correlation \in [FileNames -> CorrValues]
    /\ index = 0
    /\ group_z_matrix = <<>>
    /\ timeseries = <<>>
    /\ parcellation_data = <<>>
    /\ result = <<>>
    /\ raised = NoExc
    /\ cli = "none" /\ args = <<>> /\ files = <<>>
    /\ fs = <<>> /\ fs0 = <<>>
    /\ pc = "idle" /\ exc = NoExc /\ calls = <<>> /\ log = <<>>
    /\ output_file = <<>> /\ output_gradients = <<>> /\ lambdas = <<>>

\* gradients.py:80-81
ConnNoFiles ==
    /\ kpc = "called" /\ collection = <<>>
    /\ raised' = Raise("ValueError", "No files provided.")
    /\ kpc' = "raised"
    /\ UNCHANGED <<collection, correlation, index, group_z_matrix,
                   timeseries, parcellation_data, result>>
    /\ UNCHANGED mainVars

\* gradients.py:83-88 : the loop is entered
ConnEnterLoop ==
    /\ kpc = "called" /\ collection # <<>>
    /\ kpc' = "loop"
    /\ UNCHANGED <<collection, correlation, index, group_z_matrix,
                   timeseries, parcellation_data, result, raised>>
    /\ UNCHANGED mainVars

\* gradients.py:90-106 : one iteration of the loop
ConnProcessFile ==
    /\ kpc = "loop" /\ index < Len(collection)
    /\ LET filename == collection[index + 1]
           correlation_matrix == CorrMatrix(correlation[filename])
           z_matrix == arctanh_array(correlation_matrix)
       IN  group_z_matrix' =
               accumulate(index, group_z_matrix, z_matrix, Len(collection))
    /\ index' = index + 1
    /\ UNCHANGED <<kpc, collection, correlation,
                   timeseries, parcellation_data, result, raised>>
    /\ UNCHANGED mainVars

\* gradients.py:108
ConnReturn ==
    /\ kpc = "loop" /\ index = Len(collection)
    /\ result' = tanh_array(group_z_matrix)
    /\ kpc' = "returned"
    /\ UNCHANGED <<collection, correlation, index, group_z_matrix,
                   timeseries, parcellation_data, raised>>
    /\ UNCHANGED mainVars

NextConn == ConnNoFiles \/ ConnEnterLoop \/ ConnProcessFile \/ ConnReturn

SpecConn == InitConn /\ [][NextConn]_vars

\* the sum of the z values of entry e over the first k files
RECURSIVE ZSumOfEntry(_, _)
ZSumOfEntry(e, k) ==
    IF k = 0 THEN Rat("fin", 0, 1)
    ELSE ZAdd(ZSumOfEntry(e, k - 1),
              arctanh(CorrMatrix(correlation[collection[k]]).data[e]))

\* C1: for a collection of N >= 1 files, every entry of the matrix returned
\* by _get_connectivity_matrix is tanh of the arithmetic mean over the N
\* files (each counted once, by position) of arctanh of that entry of the
\* file's correlation matrix.
C1_TanhOfMeanOfArctanh ==
    (kpc = "returned")
    => /\ Len(collection) >= 1
       /\ result.shape = <<2, 2>>
       /\ \A e \in 1..4 :
            result.data[e] = tanh(ZDiv(ZSumOfEntry(e, Len(collection)), Len(collection)))

C1_Witness ==
    /\ kpc = "returned"
    /\ Len(collection) = 2
    /\ collection[1] # collection[2]
    /\ result.data[2].kind = "tanh"

----------------------------------------------------------------------------
(* numpy array manipulation used by _get_connectivity_matrix.              *)

MaxAxis == 3        \* largest extent of an axis of a volume

Size(a) == Product(a.shape)

\* the stride (in elements) of axis i of a C-ordered array of this shape
Stride(shape, i) == Product(SubSeq(shape, i + 1, Len(shape)))

\* numpy.unravel_index: the 0-based coordinates of 0-based flat position p
Unravel(p, shape) ==
    [i \in 1..Len(shape) |-> (p \div Stride(shape, i)) % shape[i]]

\* numpy.ravel_multi_index: the 0-based flat position of 0-based coordinates
Ravel(idx, shape) ==
    LET RECURSIVE Sum(_)
        Sum(i) == IF i > Len(shape) THEN 0
                  ELSE idx[i] * Stride(shape, i) + Sum(i + 1)
    IN  Sum(1)

SwapEnds(seq) ==
    [i \in 1..Len(seq) |->
        IF i = 1 THEN seq[Len(seq)] ELSE IF i = Len(seq) THEN seq[1] ELSE seq[i]]

\* ndarray.squeeze(): the axes of extent 1 are dropped
squeeze(a) ==
    [shape |-> SelectSeq(a.shape, LAMBDA d : d # 1), data |-> a.data]

\* np.swapaxes(a, 0, -1), for an array of at least one axis
swapaxes_0_last(a) ==
    LET new_shape == SwapEnds(a.shape)
    IN  [shape |-> new_shape,
         data |-> [p \in 1..Size(a) |->
                     a.data[Ravel(SwapEnds(Unravel(p - 1, new_shape)), a.shape) + 1]]]

\* a.reshape(a.shape[0], -1)
reshape_rows(a) ==
    [shape |-> <<a.shape[1], Size(a) \div a.shape[1]>>, data |-> a.data]

\* ndarray.flatten()
flatten(a) == [shape |-> <<Size(a)>>, data |-> a.data]

\* element [row, col] (1-based) of a 2-D array
At(a, row, col) == a.data[(row - 1) * a.shape[2] + col]

\* a volume whose element at (x, y, z, t) is <<x, y, z, t>>, and the
\* parcellation image whose element at (x, y, z) is <<x, y, z>>
VolumeOfShape(shape) ==
    [shape |-> shape, data |-> [p \in 1..Product(shape) |-> Unravel(p - 1, shape)]]

VolumeShapes == {<<x, y, z, t>> : x \in 1..MaxAxis, y \in 1..MaxAxis,
                                  z \in 1..MaxAxis, t \in 1..MaxAxis}

InitReshape ==
    /\ kpc = "called"
    /\ \E shape \in VolumeShapes :
          /\ timeseries = VolumeOfShape(shape)
          /\ parcellation_data = VolumeOfShape(SubSeq(shape, 1, 3))
    /\ collection = <<>>
    /\ correlation = <<>>
    /\ index = 0
    /\ group_z_matrix = <<>>
    /\ result = timeseries
    /\ raised = NoExc
    /\ cli = "none" /\ args = <<>> /\ files = <<>>
    /\ fs = <<>> /\ fs0 = <<>>
    /\ pc = "idle" /\ exc = NoExc /\ calls = <<>> /\ log = <<>>
    /\ output_file = <<>> /\ output_gradients = <<>> /\ lambdas = <<>>

\* gradients.py:85-86 : the parcellation image is loaded and flattened
ReshapeLoadParcellation ==
    /\ kpc = "called"
    /\ parcellation_data' = flatten(parcellation_data)
    /\ kpc' = "parcellation_loaded"
    /\ UNCHANGED <<collection, correlation, index, group_z_matrix,
                   timeseries, result, raised>>
    /\ UNCHANGED mainVars

\* gradients.py:92 : the timeseries image is loaded and squeezed
ReshapeSqueeze ==
    /\ kpc = "parcellation_loaded"
    /\ timeseries' = squeeze(timeseries)
    /\ kpc' = "squeezed"
    /\ UNCHANGED <<collection, correlation, index, group_z_matrix,
                   parcellation_data, result, raised>>
    /\ UNCHANGED mainVars

\* gradients.py:94 : np.swapaxes raises AxisError on a 0-d array
ReshapeSwapaxes ==
    /\ kpc = "squeezed"
    /\ IF timeseries.shape = <<>>
       THEN /\ raised' = Raise("AxisError", "axis1: axis 0 is out of bounds")
            /\ kpc' = "raised"
            /\ UNCHANGED timeseries
       ELSE /\ timeseries' = swapaxes_0_last(timeseries)
            /\ kpc' = "permuted"
            /\ UNCHANGED raised
    /\ UNCHANGED <<collection, correlation, index, group_z_matrix,
                   parcellation_data, result>>
    /\ UNCHANGED mainVars

\* gradients.py:95
ReshapeTo2D ==
    /\ kpc = "permuted"
    /\ timeseries' = reshape_rows(timeseries)
    /\ kpc' = "reshaped"
    /\ UNCHANGED <<collection, correlation, index, group_z_matrix,
                   parcellation_data, result, raised>>
    /\ UNCHANGED mainVars

NextReshape ==
    ReshapeLoadParcellation \/ ReshapeSqueeze \/ ReshapeSwapaxes \/ ReshapeTo2D

SpecReshape == InitReshape /\ [][NextReshape]_vars

\* C2 (as claimed), stated for the volumes it is least demanding for, those
\* with no axis of extent 1 (squeeze changes nothing): in the time-by-feature
\* matrix, row t of column j holds the sample at time t of the voxel
\* (x, y, z) whose label is element j of the flattened parcellation.
\* (`result` keeps the volume as loaded.)
C2_ColumnMatchesLabel ==
    (/\ kpc = "reshaped"
     /\ \A i \in 1..4 : result.shape[i] >= 2)
    => /\ timeseries.shape[2] = Size(parcellation_data)
       /\ \A row \in 1..timeseries.shape[1], j \in 1..timeseries.shape[2] :
            At(timeseries, row, j) = parcellation_data.data[j] \o <<row - 1>>

----------------------------------------------------------------------------
(* gradients._parcellate_timeseries.                                       *)

MaxRows == 2        \* most time points of a timeseries
MaxCols == 3        \* most columns of a timeseries / elements of a 1-D parcellation
MaxLabel == 2       \* labels range over 1..MaxLabel

\* the distinct elements of a set of integers, ascending (np.unique)
RECURSIVE SortedSeq(_)
SortedSeq(S) ==
    IF S = {} THEN <<>>
    ELSE LET m == CHOOSE x \in S : \A y \in S : x <= y
         IN  <<m>> \o SortedSeq(S \ {m})

\* a reduction that keeps, for each label, the first column carrying it
reduce_by_first_column(values, labels) ==
    LET uq == SortedSeq({labels.data[c] : c \in 1..Len(labels.data)})
        rows == values.shape[1]
        First(lab) == CHOOSE c \in 1..Len(labels.data) :
                        /\ labels.data[c] = lab
                        /\ \A d \in 1..(c - 1) : labels.data[d] # lab
    IN  [shape |-> <<rows, Len(uq)>>,
         data |-> [p \in 1..(rows * Len(uq)) |->
                     Rat("fin", At(values, ((p - 1) \div Len(uq)) + 1,
                                   First(uq[((p - 1) % Len(uq)) + 1])), 1)]]

\* brainspace.utils.parcellation.reduce_by_labels(values, labels) for a 2-D
\* values and a 1-D labels: one column per distinct label, ascending, each
\* the mean of the columns of values that carry the label
reduce_by_labels(values, labels) ==
    LET uq == SortedSeq({labels.data[c] : c \in 1..Len(labels.data)})
        rows == values.shape[1]
        SumOver(row, cols) ==
            LET RECURSIVE S(_)
                S(c) == IF c > values.shape[2] THEN 0
                        ELSE (IF c \in cols THEN At(values, row, c) ELSE 0) + S(c + 1)
            IN  S(1)
        Mean(row, lab) ==
            LET cols == {c \in 1..values.shape[2] : labels.data[c] = lab}
            IN  IF cols = {} THEN NaN
                ELSE Rat("fin", SumOver(row, cols), Cardinality(cols))
    IN  [shape |-> <<rows, Len(uq)>>,
         data |-> [p \in 1..(rows * Len(uq)) |->
                     Mean(((p - 1) \div Len(uq)) + 1, uq[((p - 1) % Len(uq)) + 1])]]

\* the check made against len(parcellation) instead of np.size(parcellation)
dimensions_differ_by_len(ts, parcellation) ==
    ts.shape[2] # parcellation.shape[1]

\* gradients.py:125 : np.shape(timeseries)[1] != np.size(parcellation)
dimensions_differ(ts, parcellation) ==
    ts.shape[2] # Product(parcellation.shape)

\* gradients._parcellate_timeseries: [result, raised, called].  What the
\* library does with labels that are not 1-D is not fixed by this
\* repository: it either raises or reduces by the flattened labels.
parcellate_timeseries(ts, parcellation, library_raises) ==
    IF dimensions_differ(ts, parcellation)
    THEN [result |-> <<>>, called |-> <<>>,
          raised |-> Raise("InputError",
                       "Parcellation dimensions do not match timeseries dimensions.")]
    ELSE IF Len(parcellation.shape) # 1 /\ library_raises
    THEN [result |-> <<>>, called |-> <<"reduce_by_labels">>,
          raised |-> Raise("Exception", "raised by brainspace")]
    ELSE [result |-> reduce_by_labels(ts, flatten(parcellation)),
          called |-> <<"reduce_by_labels">>, raised |-> NoExc]

\* time-by-region timeseries: every shape up to MaxRows x MaxCols
\* the timeseries of test_parcellate_2d_timeseries_success
TestTimeseries == [shape |-> <<3, 3>>, data |-> <<1, 2, 1, 1, 1, 1, 2, 2, 2>>]

Timeseries2D ==
    UNION {ArraysOfShape(<<t, f>>) : t \in 1..MaxRows, f \in 1..MaxCols}
    \cup {TestTimeseries}

\* parcellations: every 1-D labelling, and one 2-D array per shape
Parcellations1D ==
    UNION {{[shape |-> <<n>>, data |-> d] : d \in [1..n -> 1..MaxLabel]} :
             n \in 1..MaxCols}

Parcellations2D ==
    {[shape |-> <<a, b>>, data |-> [i \in 1..(a * b) |-> 1 + (i % MaxLabel)]] :
        a \in 1..MaxDim, b \in 1..MaxDim}

InitParc ==
    /\ kpc = "called"
    /\ timeseries \in Timeseries2D
    /\ parcellation_data \in Parcellations1D \cup Parcellations2D
    /\ collection = <<>>
    /\ correlation = <<>>
    /\ index = 0
    /\ group_z_matrix = <<>>
    /\ result = <<>>
    /\ raised = NoExc
    /\ cli = "none" /\ args = <<>> /\ files = <<>>
    /\ fs = <<>> /\ fs0 = <<>>
    /\ pc = "idle" /\ exc = NoExc /\ calls = <<>> /\ log = <<>>
    /\ output_file = <<>> /\ output_gradients = <<>> /\ lambdas = <<>>

\* a call of _parcellate_timeseries(timeseries, parcellation)
Parcellate ==
    /\ kpc = "called"
    /\ \E library_raises \in BOOLEAN :
       LET r == parcellate_timeseries(timeseries, parcellation_data, library_raises)
       IN  /\ result' = r.result
           /\ raised' = r.raised
           /\ calls' = calls \o r.called
           /\ kpc' = IF r.raised = NoExc THEN "returned" ELSE "raised"
    /\ UNCHANGED <<collection, correlation, index, group_z_matrix,
                   timeseries, parcellation_data>>
    /\ UNCHANGED <<cli, args, files, fs, fs0, pc, exc, log,
                   output_file, output_gradients, lambdas>>

NextParc == Parcellate

SpecParc == InitParc /\ [][NextParc]_vars

\* C10: once _parcellate_timeseries has been called, it has raised InputError
\* without calling reduce_by_labels if the number of columns of the
\* timeseries differs from the number of elements of the parcellation, and
\* it has not raised InputError if the two are equal.
C10_InputErrorIffDimensionsDiffer ==
    (kpc \in {"returned", "raised"})
    => LET columns == timeseries.shape[2]
           elements == Len(parcellation_data.data)
       IN  /\ columns # elements =>
                /\ kpc = "raised" /\ raised.type = "InputError"
                /\ ~Called("reduce_by_labels")
                /\ result = <<>>
           /\ columns = elements =>
                /\ raised.type # "InputError"
                /\ Called("reduce_by_labels")

C10_Witness ==
    /\ kpc = "raised" /\ raised.type = "InputError"
    /\ timeseries.shape = <<2, 3>>
    /\ parcellation_data.shape = <<2, 2>>

\* the input columns that carry a label
ColumnsOf(lab) == {c \in 1..Len(parcellation_data.data) : parcellation_data.data[c] = lab}

\* the sum of row t of the timeseries over a set of columns
RECURSIVE RowSum(_, _)
RowSum(t, cols) ==
    IF cols = {} THEN 0
    ELSE LET c == CHOOSE x \in cols : TRUE
         IN  At(timeseries, t, c) + RowSum(t, cols \ {c})

\* C11: for a time-by-region matrix and a label vector of matching length,
\* the matrix returned by _parcellate_timeseries has the rows of the input
\* and one column per distinct label, in ascending label order, and its
\* entry at row t of a label's column is the mean of row t over exactly the
\* input columns that carry the label.
C11_MeanPerLabelAscending ==
    (/\ kpc \in {"returned", "raised"}
     /\ Len(parcellation_data.shape) = 1
     /\ timeseries.shape[2] = Len(parcellation_data.data))
    => LET labels == {parcellation_data.data[c] : c \in 1..Len(parcellation_data.data)}
           \* the label of output column p: p - 1 labels are smaller
           LabelAt(p) == CHOOSE l \in labels :
                           Cardinality({m \in labels : m < l}) = p - 1
       IN  /\ kpc = "returned"
           /\ result.shape = <<timeseries.shape[1], Cardinality(labels)>>
           /\ Len(result.data) = timeseries.shape[1] * Cardinality(labels)
           /\ \A t \in 1..result.shape[1], p \in 1..result.shape[2] :
                LET e == At(result, t, p)
                    cols == ColumnsOf(LabelAt(p))
                IN  /\ e.kind = "fin" /\ e.den > 0
                    /\ e.num * Cardinality(cols) = RowSum(t, cols) * e.den

C11_Witness ==
    /\ kpc = "returned"
    /\ timeseries = TestTimeseries
    /\ parcellation_data = [shape |-> <<3>>, data |-> <<1, 1, 2>>]
    /\ result = [shape |-> <<3, 2>>,
                 data |-> <<Rat("fin", 3, 2), Rat("fin", 1, 1),
                            Rat("fin", 1, 1), Rat("fin", 1, 1),
                            Rat("fin", 2, 1), Rat("fin", 2, 1)>>]

----------------------------------------------------------------------------
(* exceptions.py of both packages: constructing an exception.              *)

MaxConstructed == 2     \* most exceptions constructed in one behaviour

Messages == {"Test message", "", "100%s", "Input list is empty."}

\* the object BaseLoggingError.__init__ leaves: self.message and, from
\* Exception.__init__(message), self.args
ExceptionObject(type, message) ==
    [type |-> type, message |-> message, args |-> <<message>>]

InitExc ==
    /\ cli \in {"ba", "grag"}
    /\ pc = "idle"
    /\ exc = NoExc
    /\ calls = <<>>
    /\ log \in {<<>>, <<[level |-> "info", msg |-> "Test message"]>>}
    /\ args = <<>> /\ files = <<>>
    /\ fs = <<>> /\ fs0 = <<>>
    /\ output_file = <<>> /\ output_gradients = <<>> /\ lambdas = <<>>
    /\ KernelIdle

\* exception_type(message)
Construct ==
    /\ cli \in {"ba", "grag"} /\ pc \in {"idle", "constructed"}
    /\ Len(calls) < MaxConstructed
    /\ \E type \in LoggingErrorTypes(cli), message \in Messages :
          /\ exc' = ExceptionObject(type, message)
          /\ log' = log \o LogOfExc(exc')
          /\ calls' = Append(calls, [type |-> type, message |-> message])
    /\ pc' = "constructed"
    /\ UNCHANGED <<cli, args, files, fs, fs0, output_file, output_gradients, lambdas>>
    /\ UNCHANGED kernelVars

NextExc == Construct

SpecExc == InitExc /\ [][NextExc]_vars

\* C12: every construction of an exception of the package with a message
\* adds exactly one record to the log of the package logger, at error level
\* and with exactly that message, and the exception carries the message.
C12_ConstructionLogsOnce ==
    [][calls' # calls =>
         LET made == calls'[Len(calls')]
         IN  /\ log' = Append(log, [level |-> "error", msg |-> made.message])
             /\ exc'.type = made.type
             /\ exc'.message = made.message
             /\ exc'.args = <<made.message>>]_vars

C12_Witness ==
    /\ pc = "constructed" /\ cli = "grag"
    /\ exc = ExceptionObject("BrainSpaceError", "Test message")
    /\ Len(calls) = 2
    /\ log = <<[level |-> "info", msg |-> "Test message"],
               [level |-> "error", msg |-> ""],
               [level |-> "error", msg |-> "Test message"]>>

----------------------------------------------------------------------------
(* Properties of the grag-brainspace input checks.                         *)

\* C13: a run of the grag-brainspace main in which neither --input_file nor
\* --input_list is given, or both are given, or the file list that results
\* is empty, ends with InputError 'You must provide either an input file or
\* a non-empty input list.', and computes and writes nothing.
C13_InputNotGivenEndsInInputError ==
    (/\ cli = "grag" /\ pc \notin {"start", "got_files"}
     /\ \/ (~args.input_file.given /\ ~args.input_list.given)
        \/ (args.input_file.given /\ args.input_list.given)
        \/ (args.input_file.given /\ args.input_file.val = <<>>)
        \/ (~args.input_file.given /\ args.input_list.val = <<>>))
    => /\ pc = "raised"
       /\ exc = Raise("InputError",
                      "You must provide either an input file or a non-empty input list.")
       /\ ~Called("compute_gradients")
       /\ fs = fs0

\* names of neither kind: a text file, and a name that ends in "nii"
\* without the dot
File_xnii == <<"x", "n", "i", "i">>
ValidateNames == FileNames \cup {File_g_txt, File_xnii}

ValidateLists ==
    LET lists == UNION {[1..n -> ValidateNames] : n \in 0..MaxFiles}
    IN  {[i \in DOMAIN l |-> StrFile(l[i])] : l \in lists}
        \cup {[i \in DOMAIN l |-> PathFile(l[i])] : l \in lists}

\* a direct call _raise_invalid_input(args, files), as the unit tests make it
InitValidate ==
    /\ cli = "grag"
    /\ pc = "got_files"
    /\ args \in [force : BOOLEAN, dry_run : {FALSE}, output_format : {<<>>},
                 parcellation : Parcellations, bids_dir_exists : {TRUE},
                 input_file : {NotGiven, Given(<<PathFile(File_a_nii)>>)},
                 input_list : {NotGiven, Given(<<File_a_nii>>)},
                 output : {File_out_h5}]
    /\ files \in ValidateLists
    /\ fs \in {[p \in AllPaths |-> IF p = File_out_h5 THEN old ELSE Absent] :
                  old \in {Absent, OldH5}}
    /\ fs0 = fs
    /\ exc = NoExc
    /\ calls = <<>>
    /\ log = <<>>
    /\ output_file = args.output
    /\ output_gradients = <<>>
    /\ lambdas = <<>>
    /\ KernelIdle

NextValidate == GragValidate

SpecValidate == InitValidate /\ [][NextValidate]_vars

NiftiNames == {File_a_nii, File_b_nii_gz}
GiftiNames == {File_c_gii}

\* all files NIFTI, or all files GIFTI
Homogeneous ==
    \/ \A i \in 1..Len(files) : files[i].name \in NiftiNames
    \/ \A i \in 1..Len(files) : files[i].name \in GiftiNames

\* C14: once grag-brainspace's _raise_invalid_input has been called, it has
\* raised InputError if the files mix NIFTI and GIFTI or contain a file of
\* neither kind, and it has not raised the file-type InputError if the files
\* are all NIFTI or all GIFTI.
C14_FileTypesMustBeHomogeneous ==
    (cli = "grag" /\ Called("_raise_invalid_input"))
    => /\ ~Homogeneous => (pc = "raised" /\ exc.type = "InputError")
       /\ Homogeneous =>
             exc # Raise("InputError",
                    "Input file(s) must be either be GIFTI or NIFTI files, not both.")

C14_Witness ==
    /\ cli = "grag" /\ pc = "raised"
    /\ Len(files) = 2
    /\ files[1].name = File_b_nii_gz /\ files[2].name = File_c_gii
    /\ exc = Raise("InputError",
                   "Input file(s) must be either be GIFTI or NIFTI files, not both.")

----------------------------------------------------------------------------
(* grag_brainspace.cli._parse_input_list on the text of a list file.       *)

MaxText == 4        \* most characters of a list file

NewLine == "\n"
TextAlphabet == {"a", "b", NewLine}
Texts == UNION {[1..n -> TextAlphabet] : n \in 0..MaxText}

\* str.splitlines(): the text cut at every line end; a line end at the very
\* end of the text starts no further line
RECURSIVE SplitFrom(_, _, _, _)
SplitFrom(text, i, current, done) ==
    IF i > Len(text)
    THEN (IF current = <<>> THEN done ELSE Append(done, current))
    ELSE IF text[i] = NewLine
    THEN SplitFrom(text, i + 1, <<>>, Append(done, current))
    ELSE SplitFrom(text, i + 1, Append(current, text[i]), done)

splitlines(text) == SplitFrom(text, 1, <<>>, <<>>)

File_list_txt == <<"l", ".", "t", "x", "t">>
LinePaths == UNION {[1..n -> {"a", "b"}] : n \in 0..MaxText}

\* the list file holds a text or is missing; of the paths a line can name,
\* "a" and "b" exist or not, and the empty path is the working directory
ListFileSystems ==
    {[p \in LinePaths \cup {File_list_txt} |->
        IF p = File_list_txt THEN content
        ELSE IF p = <<>> THEN [kind |-> "directory"]
        ELSE IF p \in existing THEN TimeseriesFile
        ELSE Absent] :
        content \in {Absent} \cup {[kind |-> "text", text |-> t] : t \in Texts},
        existing \in SUBSET {<<"a">>, <<"b">>}}

InitParse ==
    /\ cli = "grag"
    /\ pc = "parse"
    /\ args = [input_list |-> File_list_txt]
    /\ fs \in ListFileSystems
    /\ fs0 = fs
    /\ files = <<>>
    /\ exc = NoExc
    /\ calls = <<>>
    /\ log = <<>>
    /\ output_file = <<>> /\ output_gradients = <<>> /\ lambdas = <<>>
    /\ KernelIdle

\* _parse_input_list(input_list)
ParseInputList ==
    /\ cli = "grag" /\ pc = "parse"
    /\ calls' = Append(calls, "_parse_input_list")
    /\ IF ~Exists(fs, args.input_list)
       THEN /\ exc' = Raise("FileNotFoundError", "No such file or directory")
            /\ files' = files
       ELSE LET input_files == splitlines(fs[args.input_list].text)
                r == parse_input_list(Given(input_files), fs)
            IN  /\ exc' = r.exc
                /\ files' = r.files
    /\ log' = log \o LogOfExc(exc')
    /\ pc' = IF exc' = NoExc THEN "returned" ELSE "raised"
    /\ UNCHANGED <<cli, args, fs, fs0, output_file, output_gradients, lambdas>>
    /\ UNCHANGED kernelVars

NextParse == ParseInputList

SpecParse == InitParse /\ [][NextParse]_vars

\* the text of which the lines are the lines, each ended by a line end
RECURSIVE Terminated(_)
Terminated(lines) ==
    IF lines = <<>> THEN <<>>
    ELSE Head(lines) \o <<NewLine>> \o Terminated(Tail(lines))

\* C15: once _parse_input_list has read a list file, it has returned exactly
\* the lines of the file, in file order, if there is at least one line, every
\* line names an existing path and no line is repeated; otherwise it has
\* raised InputError and returned nothing.
C15_ParseInputList ==
    (/\ pc \in {"returned", "raised"} /\ Called("_parse_input_list")
     /\ Exists(fs, File_list_txt))
    => LET text == fs[File_list_txt].text
           lines == splitlines(text)
           accepted == /\ lines # <<>>
                       /\ \A i \in 1..Len(lines) : Exists(fs, lines[i])
                       /\ \A i, j \in 1..Len(lines) : lines[i] = lines[j] => i = j
           returned == [i \in 1..Len(files) |-> files[i].name]
       IN  /\ accepted =>
                /\ pc = "returned"
                /\ \A i \in 1..Len(returned) :
                      \A k \in 1..Len(returned[i]) : returned[i][k] # NewLine
                /\ \/ text = Terminated(returned)
                   \/ /\ returned[Len(returned)] # <<>>
                      /\ text \o <<NewLine>> = Terminated(returned)
           /\ ~accepted =>
                /\ pc = "raised" /\ exc.type = "InputError"
                /\ files = <<>>

C15_Witness ==
    /\ pc = "returned"
    /\ Exists(fs, File_list_txt)
    /\ fs[File_list_txt].text = <<"b", NewLine, "a", NewLine>>
    /\ files = <<StrFile(<<"b">>), StrFile(<<"a">>)>>

----------------------------------------------------------------------------
(* ba_timeseries_gradients.gradients.compute_gradients.                    *)

Approaches == {"pca", "le", "dm"}
Kernels == {"pearson", "spearman", "cosine", "normalized_angle", "gaussian"}

\* what a call into BrainSpace may raise
LibraryErrors ==
    {Raise("Exception", "Error"), Raise("ValueError", "raised by brainspace")}

\* what _get_connectivity_matrix may raise
ConnectivityErrors ==
    {Raise("ValueError", "No files provided."),
     Raise("InputError", "Parcellation dimensions do not match timeseries dimensions.")}

InitEmbed ==
    /\ cli = "ba"
    /\ pc = "compute_gradients"
    /\ args \in [approach : Approaches \cup {"other"},
                 kernel : Kernels \cup {"other"},
                 n_components : {1, 10}, sparsity : {"0", "0.9"}]
    /\ files \in StrLists
    /\ fs = <<>> /\ fs0 = <<>>
    /\ exc = NoExc
    /\ calls = <<>>
    /\ log = <<>>
    /\ output_file = <<>> /\ output_gradients = <<>> /\ lambdas = <<>>
    /\ KernelIdle

\* gradients.py:51 : connectivity_matrix = _get_connectivity_matrix(...)
EmbedConnectivity ==
    /\ cli = "ba" /\ pc = "compute_gradients"
    /\ calls' = Append(calls, "_get_connectivity_matrix")
    /\ \/ /\ files # <<>>
          /\ exc' = exc
          /\ pc' = "connectivity"
       \/ /\ exc' \in (IF files = <<>>
                        THEN {Raise("ValueError", "No files provided.")}
                        ELSE ConnectivityErrors \ {Raise("ValueError", "No files provided.")})
          /\ pc' = "raised"
    /\ log' = log \o LogOfExc(exc')
    /\ UNCHANGED <<cli, args, files, fs, fs0, output_file, output_gradients, lambdas>>
    /\ UNCHANGED kernelVars

\* gradients.py:54-60 : gradient.GradientMaps(...) returns, or what it
\* raises leaves compute_gradients as it is
EmbedConstruct ==
    /\ cli = "ba" /\ pc = "connectivity"
    /\ calls' = Append(calls, "GradientMaps")
    /\ \/ /\ exc' = exc
          /\ pc' = "constructed"
       \/ /\ exc' \in LibraryErrors
          /\ pc' = "raised"
    /\ log' = log \o LogOfExc(exc')
    /\ UNCHANGED <<cli, args, files, fs, fs0, output_file, output_gradients, lambdas>>
    /\ UNCHANGED kernelVars

\* gradients.py:61 : gradient_map.fit(connectivity_matrix, sparsity=sparsity)
\* returns, or what it raises leaves compute_gradients as it is
EmbedFit ==
    /\ cli = "ba" /\ pc = "constructed"
    /\ calls' = Append(calls, "fit")
    /\ \/ /\ exc' = exc
          /\ pc' = "fitted"
       \/ /\ exc' \in LibraryErrors
          /\ pc' = "raised"
    /\ log' = log \o LogOfExc(exc')
    /\ UNCHANGED <<cli, args, files, fs, fs0, output_file, output_gradients, lambdas>>
    /\ UNCHANGED kernelVars

\* gradients.py:63 : return gradient_map.gradients_, gradient_map.lambdas_
EmbedReturn ==
    /\ cli = "ba" /\ pc = "fitted"
    /\ \E r \in Results :
          /\ output_gradients' = r.gradients
          /\ lambdas' = r.lambdas
    /\ pc' = "returned"
    /\ UNCHANGED <<cli, args, files, fs, fs0, exc, calls, log, output_file>>
    /\ UNCHANGED kernelVars

NextEmbed == EmbedConnectivity \/ EmbedConstruct \/ EmbedFit \/ EmbedReturn

SpecEmbed == InitEmbed /\ [][NextEmbed]_vars

\* C16: when compute_gradients has ended in an exception raised by the
\* construction of GradientMaps or by its fit, that exception is a
\* BrainSpaceError.
C16_EmbeddingRaisesBrainSpaceError ==
    (/\ pc = "raised"
     /\ Called("GradientMaps"))
    => exc.type = "BrainSpaceError"

----------------------------------------------------------------------------
(* ba_timeseries_gradients.parser: the argument validators.                *)

MaxChars == 3       \* most characters of an argument string

\* U+00B2 SUPERSCRIPT TWO: a digit for str.isdigit(), not a decimal for int()
Superscript2 == "sup2"

DecimalChars == {"0", "1", "2", "5"}
ArgumentAlphabet == DecimalChars \cup {"-", "+", ".", "a", Superscript2}
ArgumentStrings == UNION {[1..n -> ArgumentAlphabet] : n \in 0..MaxChars}

DigitValue(c) == CASE c = "0" -> 0 [] c = "1" -> 1 [] c = "2" -> 2 [] c = "5" -> 5

\* str.isdigit(): non-empty and every character is a digit
isdigit(str) ==
    /\ str # <<>>
    /\ \A i \in 1..Len(str) : str[i] \in DecimalChars \cup {Superscript2}

\* non-empty and every character is a decimal
IsDecimal(str) ==
    /\ str # <<>>
    /\ \A i \in 1..Len(str) : str[i] \in DecimalChars

RECURSIVE DecimalValue(_)
DecimalValue(str) ==
    IF str = <<>> THEN 0
    ELSE DecimalValue(SubSeq(str, 1, Len(str) - 1)) * 10 + DigitValue(str[Len(str)])

RECURSIVE Pow10(_)
Pow10(n) == IF n = 0 THEN 1 ELSE 10 * Pow10(n - 1)

Signed(str) == str # <<>> /\ str[1] \in {"+", "-"}
Unsigned(str) == IF Signed(str) THEN Tail(str) ELSE str
SignOf(str) == IF Signed(str) /\ str[1] = "-" THEN -1 ELSE 1

\* int(str): an optional sign and decimals, else ValueError
py_int(str) ==
    IF IsDecimal(Unsigned(str))
    THEN [ok |-> TRUE, val |-> SignOf(str) * DecimalValue(Unsigned(str))]
    ELSE [ok |-> FALSE, val |-> 0]

\* float(str): an optional sign, decimals with at most one point and at
\* least one decimal, else ValueError; the value is num / den
py_float(str) ==
    LET body == Unsigned(str)
        points == {i \in 1..Len(body) : body[i] = "."}
        digits == SelectSeq(body, LAMBDA c : c # ".")
        after == IF points = {} THEN 0
                 ELSE Len(body) - (CHOOSE i \in points : TRUE)
    IN  IF Cardinality(points) <= 1 /\ IsDecimal(digits)
        THEN [ok |-> TRUE, num |-> SignOf(str) * DecimalValue(digits),
              den |-> Pow10(after)]
        ELSE [ok |-> FALSE, num |-> 0, den |-> 1]

ValueError(message) == Raise("ValueError", message)
ArgumentTypeError(message) == Raise("ArgumentTypeError", message)

\* parser._is_positive_integer: [value, exc]
is_positive_integer(value) ==
    IF isdigit(value)
    THEN (IF ~py_int(value).ok
          THEN [value |-> <<>>, exc |-> ValueError("invalid literal for int() with base 10")]
          ELSE IF py_int(value).val > 0
          THEN [value |-> py_int(value).val, exc |-> NoExc]
          ELSE [value |-> <<>>,
                exc |-> ArgumentTypeError("Argument is not a positive integer.")])
    ELSE [value |-> <<>>,
          exc |-> ArgumentTypeError("Argument is not a positive integer.")]

\* parser._is_between_zero_and_one: [value, exc]
is_between_zero_and_one(val) ==
    LET f == py_float(val)
    IN  IF ~f.ok
        THEN [value |-> <<>>, exc |-> ValueError("could not convert string to float")]
        ELSE IF 0 <= f.num /\ f.num < f.den
        THEN [value |-> [num |-> f.num, den |-> f.den], exc |-> NoExc]
        ELSE [value |-> <<>>, exc |-> ArgumentTypeError("is not in range [0, 1).")]

InitParser ==
    /\ cli = "ba"
    /\ pc = "call"
    /\ args \in [value : ArgumentStrings]
    /\ files = <<>>
    /\ fs = <<>> /\ fs0 = <<>>
    /\ exc = NoExc
    /\ calls = <<>>
    /\ log = <<>>
    /\ output_file = <<>> /\ output_gradients = <<>> /\ lambdas = <<>>
    /\ KernelIdle

\* parser._is_positive_integer(value)
CallIsPositiveInteger ==
    /\ pc = "call" /\ cli = "ba"
    /\ calls' = Append(calls, "_is_positive_integer")
    /\ LET r == is_positive_integer(args.value)
       IN  /\ result' = r.value
           /\ exc' = r.exc
    /\ log' = log \o LogOfExc(exc')
    /\ pc' = IF exc' = NoExc THEN "returned" ELSE "raised"
    /\ UNCHANGED <<cli, args, files, fs, fs0, output_file, output_gradients, lambdas>>
    /\ UNCHANGED <<kpc, collection, correlation, index, group_z_matrix,
                   timeseries, parcellation_data, raised>>

\* parser._is_between_zero_and_one(val)
CallIsBetweenZeroAndOne ==
    /\ pc = "call" /\ cli = "ba"
    /\ calls' = Append(calls, "_is_between_zero_and_one")
    /\ LET r == is_between_zero_and_one(args.value)
       IN  /\ result' = r.value
           /\ exc' = r.exc
    /\ log' = log \o LogOfExc(exc')
    /\ pc' = IF exc' = NoExc THEN "returned" ELSE "raised"
    /\ UNCHANGED <<cli, args, files, fs, fs0, output_file, output_gradients, lambdas>>
    /\ UNCHANGED <<kpc, collection, correlation, index, group_z_matrix,
                   timeseries, parcellation_data, raised>>

NextParser == CallIsPositiveInteger \/ CallIsBetweenZeroAndOne

SpecParser == InitParser /\ [][NextParser]_vars

\* C17: once _is_positive_integer has been called on a string, it has
\* returned the integer the string denotes if that is an integer greater
\* than 0, and it has raised ArgumentTypeError, and no other exception, in
\* every other case.
C17_PositiveIntegerOrArgumentTypeError ==
    (pc # "call" /\ Called("_is_positive_integer"))
    => IF IsDecimal(args.value) /\ DecimalValue(args.value) > 0
       THEN pc = "returned" /\ result = DecimalValue(args.value)
       ELSE pc = "raised" /\ exc.type = "ArgumentTypeError"

\* C18: once _is_between_zero_and_one has been called on a string, it has
\* returned the value of the string if that lies in [0, 1), and it has
\* raised ArgumentTypeError in every other case.
C18_UnitIntervalOrArgumentTypeError ==
    (pc # "call" /\ Called("_is_between_zero_and_one"))
    => LET f == py_float(args.value)
       IN  IF f.ok /\ 0 <= f.num /\ f.num < f.den
           THEN pc = "returned" /\ result = [num |-> f.num, den |-> f.den]
           ELSE pc = "raised" /\ exc.type = "ArgumentTypeError"

----------------------------------------------------------------------------
(* ba_timeseries_gradients.cli: main from the command line on.             *)

\* values of --dimensionality_reduction and --kernel on a command line
ApproachArguments == {"dm", "pca", "other"}
KernelArguments == {"cosine", "other"}

\* values of --sparsity and --n_components on a command line
SparsityArguments == {<<"0", ".", "5">>, <<"0">>, <<"5">>, <<"-", "1">>, <<"a">>}
ComponentArguments == {<<"1", "0">>, <<"0">>, <<"-", "1">>, <<"a">>}

CommandLines ==
    [dimensionality_reduction : ApproachArguments, kernel : KernelArguments,
     sparsity : SparsityArguments, n_components : ComponentArguments]

SystemExit(message) == Raise("SystemExit", message)

\* cli._get_parser: --dimensionality_reduction and --kernel are type=str,
\* --sparsity is type=float, --n_components is type=int, none has choices;
\* argparse turns the ValueError of a type into an exit: [namespace, exc]
cli_parse_args(argv) ==
    IF ~py_float(argv.sparsity).ok
    THEN [namespace |-> <<>>, exc |-> SystemExit("argument --sparsity: invalid float value")]
    ELSE IF ~py_int(argv.n_components).ok
    THEN [namespace |-> <<>>, exc |-> SystemExit("argument --n_components: invalid int value")]
    ELSE [namespace |->
            [dimensionality_reduction |-> argv.dimensionality_reduction,
             kernel |-> argv.kernel,
             sparsity |-> [num |-> py_float(argv.sparsity).num,
                           den |-> py_float(argv.sparsity).den],
             n_components |-> py_int(argv.n_components).val],
          exc |-> NoExc]

InitCli ==
    /\ cli = "ba"
    /\ pc = "parse"
    /\ args \in [force : {FALSE}, dry_run : BOOLEAN, output_format : {Str_h5},
                 parcellation : Parcellations, bids_dir_exists : BOOLEAN,
                 input_file : {NotGiven}, input_list : {NotGiven}, output : {<<>>},
                 argv : CommandLines, namespace : {<<>>}]
    /\ fs \in {f \in InitialFileSystems(BaOutputPaths) :
                  \A p \in AllPaths : Exists(f, p) <=> p \in FileNames}
    /\ fs0 = fs
    /\ files = <<>>
    /\ exc = NoExc
    /\ calls = <<>>
    /\ log = <<>>
    /\ output_file = <<>>
    /\ output_gradients = <<>>
    /\ lambdas = <<>>
    /\ KernelIdle

\* cli.py:20-22 : parser = _get_parser(); args = parser.parse_args()
CliParseArgs ==
    /\ cli = "ba" /\ pc = "parse"
    /\ calls' = Append(calls, "parse_args")
    /\ LET r == cli_parse_args(args.argv)
       IN  /\ args' = [args EXCEPT !.namespace = r.namespace]
           /\ exc' = r.exc
    /\ log' = log \o LogOfExc(exc')
    /\ pc' = IF exc' = NoExc THEN "start" ELSE "raised"
    /\ UNCHANGED <<cli, files, fs, fs0, output_file, output_gradients, lambdas>>
    /\ UNCHANGED kernelVars

NextCli ==
    \/ CliParseArgs
    \/ BaGetFiles
    \/ BaDryRun
    \/ BaValidate
    \/ Compute
    \/ BaSave

SpecCli == InitCli /\ [][NextCli]_vars

\* the command line is inside the documented domains
InDomains(argv) ==
    /\ argv.dimensionality_reduction \in Approaches
    /\ argv.kernel \in Kernels
    /\ py_float(argv.sparsity).ok
    /\ 0 <= py_float(argv.sparsity).num
    /\ py_float(argv.sparsity).num <= py_float(argv.sparsity).den
    /\ IsDecimal(argv.n_components) /\ DecimalValue(argv.n_components) > 0

\* C19: whenever the ba_timeseries_gradients main has called
\* compute_gradients, the approach is one of pca, le, dm, the kernel one of
\* the five kernels, the sparsity between 0 and 1 and n_components a
\* positive integer; and a command line outside these domains has been
\* rejected before the input files were looked up.
C19_ParametersInsideDomains ==
    /\ (cli = "ba" /\ Called("compute_gradients")) =>
          /\ args.namespace.dimensionality_reduction \in Approaches
          /\ args.namespace.kernel \in Kernels
          /\ 0 <= args.namespace.sparsity.num
          /\ args.namespace.sparsity.num <= args.namespace.sparsity.den
          /\ args.namespace.n_components > 0
    /\ (cli = "ba" /\ pc # "parse" /\ ~InDomains(args.argv)) =>
          /\ pc = "raised"
          /\ ~Called("_get_bids_files")

----------------------------------------------------------------------------
(* grag_brainspace.utils.save, and main run on a given namespace.          *)

Str_hdf5 == <<"h", "d", "f", "5">>
Str_txt == <<"t", "x", "t">>
Str_x_json == <<"x", ".", "j", "s", "o", "n">>

\* values of args.output_format handed to utils.save
SaveFormats == {Str_h5, Str_hdf5, Str_json, Str_txt, <<>>, Str_x_json}

\* values of output_format of the namespace main is run on
\* (MockParser.output_format is "hdf5")
NamespaceFormats == {Str_h5, Str_hdf5, Str_json}

\* output_dir / ("gradients." + extension), relative to output_dir
GradientsFile(extension) == Str_gradients_dot \o extension

FormatPaths == FileNames \cup {GradientsFile(f) : f \in SaveFormats}

\* grag_brainspace.utils.save: [fs, exc, writer]
grag_utils_save(gradients, lams, a, fsys) ==
    LET extension == IF a.output_format = Str_hdf5 THEN Str_h5 ELSE a.output_format
        filename == GradientsFile(extension)
    IN  save(gradients, lams, filename, fsys)

InitFormat ==
    /\ cli \in {"ba", "grag"}
    /\ IF cli = "ba"
       THEN /\ pc = "start"
            /\ args \in [force : BOOLEAN, dry_run : BOOLEAN,
                         output_format : NamespaceFormats,
                         parcellation : Parcellations, bids_dir_exists : {TRUE},
                         input_file : {NotGiven}, input_list : {NotGiven},
                         output : {<<>>}]
            /\ output_gradients = <<>>
            /\ lambdas = <<>>
       ELSE /\ pc = "computed"
            /\ args \in [output_format : SaveFormats]
            /\ output_gradients \in Arrays2D
            /\ lambdas \in Arrays1D
    /\ fs = [p \in FormatPaths |-> IF p \in FileNames THEN TimeseriesFile ELSE Absent]
    /\ fs0 = fs
    /\ files = <<>>
    /\ exc = NoExc
    /\ calls = <<>>
    /\ log = <<>>
    /\ output_file = <<>>
    /\ KernelIdle

\* utils.save(output_gradients, lambdas, args)
CallGragUtilsSave ==
    /\ cli = "grag" /\ pc = "computed"
    /\ LET r == grag_utils_save(output_gradients, lambdas, args, fs)
       IN  /\ fs' = r.fs
           /\ exc' = r.exc
           /\ calls' = calls \o <<"save">>
                       \o (IF r.writer = "none" THEN <<>> ELSE <<r.writer>>)
    /\ log' = log \o LogOfExc(exc')
    /\ pc' = IF exc' = NoExc THEN "saved" ELSE "raised"
    /\ UNCHANGED <<cli, args, files, fs0, output_file, output_gradients, lambdas>>
    /\ UNCHANGED kernelVars

NextFormat ==
    \/ CallGragUtilsSave
    \/ BaGetFiles
    \/ BaDryRun
    \/ BaValidate
    \/ Compute
    \/ BaSave

SpecFormat == InitFormat /\ [][NextFormat]_vars

\* the files that differ from what they were at the start
Written == {p \in DOMAIN fs : fs[p] # fs0[p]}

\* C20: once grag_brainspace.utils.save has been called, it has written
\* gradients.h5, and nothing else, if output_format is 'hdf5' or 'h5',
\* gradients.json, and nothing else, if it is 'json', and it has raised
\* InternalError and written nothing for every other output_format; and a
\* run of main with output_format 'hdf5' that has reached the save has left
\* its result in gradients.h5.
C20_FormatDecidesOutputFile ==
    /\ (cli = "grag" /\ Called("save")) =>
          /\ args.output_format \in {Str_h5, Str_hdf5} =>
                (pc = "saved" /\ Written = {GradientsFile(Str_h5)})
          /\ args.output_format = Str_json =>
                (pc = "saved" /\ Written = {GradientsFile(Str_json)})
          /\ args.output_format \notin {Str_h5, Str_hdf5, Str_json} =>
                (pc = "raised" /\ exc.type = "InternalError" /\ Written = {})
    /\ (cli = "ba" /\ Called("save") /\ args.output_format = Str_hdf5) =>
          (pc = "saved" /\ Written = {GradientsFile(Str_h5)})

----------------------------------------------------------------------------
(* Further properties of gradients._get_connectivity_matrix.               *)

\* C21: if all N files of the collection have the same correlation matrix,
\* the matrix returned by _get_connectivity_matrix is that correlation
\* matrix, unit diagonal included, for every N >= 1.
C21_IdenticalFilesGiveTheirCorrelation ==
    (/\ kpc = "returned"
     /\ \A i \in 1..Len(collection) :
           correlation[collection[i]] = correlation[collection[1]])
    => result = CorrMatrix(correlation[collection[1]])

C21_Witness ==
    /\ kpc = "returned"
    /\ Len(collection) = 2
    /\ collection[1] # collection[2]
    /\ correlation[collection[1]] = Rat("rat", -1, 2)
    /\ correlation[collection[2]] = Rat("rat", -1, 2)
    /\ result = CorrMatrix(Rat("rat", -1, 2))

----------------------------------------------------------------------------
(* gradients._get_connectivity_matrix from the files on: what is loaded,   *)
(* and the shape of every intermediate array.  An image is a record with   *)
(* the class nibabel gave it and either its data array (dataobj) or its    *)
(* list of data arrays (darrays).  The correlation values are those of     *)
(* the accumulation above; here group_z_matrix and result carry the shape  *)
(* only.                                                                    *)

MaxExtent == 2      \* largest extent of an axis of an image

File_d_mgz == <<"d", ".", "m", "g", "z">>
File_p_gii == <<"p", ".", "g", "i", "i">>

\* the data of whatever image has some, looked up by attribute and not by
\* class
get_data_of_any_image(image) ==
    IF "dataobj" \in DOMAIN image
    THEN [value |-> image.dataobj, raised |-> NoExc]
    ELSE IF image.darrays = <<>>
    THEN [value |-> <<>>, raised |-> Raise("IndexError", "list index out of range")]
    ELSE [value |-> image.darrays[1].data, raised |-> NoExc]

\* gradients.py:137-152 : [value, raised]; darrays[0] of an empty list is an
\* IndexError
get_nifti_gifti_data(image) ==
    IF image.class \in {"Nifti1Image", "Nifti2Image"}
    THEN [value |-> image.dataobj, raised |-> NoExc]
    ELSE IF image.class = "GiftiImage"
    THEN IF image.darrays = <<>>
         THEN [value |-> <<>>,
               raised |-> Raise("IndexError", "list index out of range")]
         ELSE [value |-> image.darrays[1].data, raised |-> NoExc]
    ELSE [value |-> <<>>,
          raised |-> Raise("InputError",
                       "Input image must be a NIfTI or GIFTI image.")]

\* np.arange(size).reshape(shape)
ArangeOfShape(shape) ==
    [shape |-> shape, data |-> [p \in 1..Product(shape) |-> p - 1]]

\* an array of labels 1..n, repeating
LabelsOfShape(shape, n) ==
    [shape |-> shape, data |-> [p \in 1..Product(shape) |-> ((p - 1) % n) + 1]]

Nifti1Image(a) == [class |-> "Nifti1Image", dataobj |-> a]
GiftiImage(arrays) ==
    [class |-> "GiftiImage",
     darrays |-> [i \in 1..Len(arrays) |-> [data |-> arrays[i]]]]
MGHImage(a) == [class |-> "MGHImage", dataobj |-> a]

ImageShapes == {<<x, y, z, t>> : x \in 1..MaxExtent, y \in 1..MaxExtent,
                                 z \in 1..MaxExtent, t \in 1..MaxExtent}

\* the files of one run: a volume (x, y, z, t), the same samples as a
\* surface (x*y*z, t) in one data array, an image of another class, and
\* the parcellation of the x*y*z elements into n labels as a volume and as
\* a surface
ImageFiles(shape, n) ==
    LET spatial == SubSeq(shape, 1, 3)
    IN  (File_a_nii :> Nifti1Image(ArangeOfShape(shape)))
        @@ (File_c_gii :>
              GiftiImage(<<ArangeOfShape(<<Product(spatial), shape[4]>>)>>))
        @@ (File_d_mgz :> MGHImage(ArangeOfShape(shape)))
        @@ (File_parcellation :> Nifti1Image(LabelsOfShape(spatial, n)))
        @@ (File_p_gii :> GiftiImage(<<LabelsOfShape(<<Product(spatial)>>, n)>>))

TimeseriesNames == {File_a_nii, File_c_gii, File_d_mgz}
TimeseriesLists ==
    UNION {[1..n -> TimeseriesNames] : n \in 0..MaxFiles}

\* the shape of np.corrcoef(a, rowvar=False) for a 2-D a: np.cov takes the
\* columns as variables unless a has one row, and squeezes its result
corrcoef_shape(a) ==
    LET variables == IF a.shape[1] = 1 THEN 1 ELSE a.shape[2]
    IN  IF variables = 1 THEN <<>> ELSE <<variables, variables>>

\* group_z_matrix += z_matrix / len(files): the operand is broadcast to the
\* shape of group_z_matrix
broadcasts_to(z_shape, group_shape) ==
    z_shape = <<>> \/ z_shape = group_shape

InitMatrix ==
    /\ kpc = "called"
    /\ \E shape \in ImageShapes, n \in 1..MaxLabel : fs = ImageFiles(shape, n)
    /\ collection \in TimeseriesLists
    /\ \E parcellation_file \in
            {NotGiven, Given(File_parcellation), Given(File_p_gii)} :
          args = [parcellation_file |-> parcellation_file]
    /\ correlation = <<>>
    /\ index = 0
    /\ group_z_matrix = <<>>
    /\ timeseries = <<>>
    /\ parcellation_data = <<>>
    /\ result = <<>>
    /\ raised = NoExc
    /\ cli = "none" /\ files = <<>> /\ fs0 = fs
    /\ pc = "idle" /\ exc = NoExc /\ calls = <<>> /\ log = <<>>
    /\ output_file = <<>> /\ output_gradients = <<>> /\ lambdas = <<>>

\* a check that lets every collection pass
never_empty(files_) == FALSE

\* gradients.py:80 : not files
no_files(files_) == Len(files_) = 0

\* gradients.py:80-81
MatrixNoFiles ==
    /\ kpc = "called" /\ no_files(collection)
    /\ raised' = Raise("ValueError", "No files provided.")
    /\ kpc' = "raised"
    /\ UNCHANGED <<collection, correlation, index, group_z_matrix,
                   timeseries, parcellation_data, result>>
    /\ UNCHANGED mainVars

\* gradients.py:83-88
MatrixLoadParcellation ==
    /\ kpc = "called" /\ ~no_files(collection)
    /\ IF args.parcellation_file.given
       THEN LET parcellation == fs[args.parcellation_file.val]
                loaded == get_nifti_gifti_data(parcellation)
            IN  /\ calls' = Append(calls, <<"nib.load", args.parcellation_file.val>>)
                /\ IF loaded.raised # NoExc
                   THEN /\ raised' = loaded.raised
                        /\ kpc' = "raised"
                        /\ UNCHANGED parcellation_data
                   ELSE /\ parcellation_data' = flatten(loaded.value)
                        /\ kpc' = "loop"
                        /\ UNCHANGED raised
       ELSE /\ parcellation_data' = Absent
            /\ kpc' = "loop"
            /\ UNCHANGED <<calls, raised>>
    /\ UNCHANGED <<collection, correlation, index, group_z_matrix,
                   timeseries, result>>
    /\ UNCHANGED <<cli, args, files, fs, fs0, pc, exc, log,
                   output_file, output_gradients, lambdas>>

\* gradients.py:90-106 : one turn of the loop
MatrixProcessFile ==
    /\ kpc = "loop" /\ index < Len(collection)
    /\ LET filename == collection[index + 1]
           loaded == get_nifti_gifti_data(fs[filename])
           squeezed == squeeze(loaded.value)
           timeseries_2d == reshape_rows(swapaxes_0_last(squeezed))
           parcellated ==
               IF parcellation_data = Absent
               THEN [result |-> timeseries_2d, raised |-> NoExc]
               ELSE parcellate_timeseries(timeseries_2d, parcellation_data, FALSE)
           z_shape == corrcoef_shape(parcellated.result)
           failure ==
               IF loaded.raised # NoExc THEN loaded.raised
               ELSE IF squeezed.shape = <<>>
               THEN Raise("AxisError", "axis1: axis 0 is out of bounds")
               ELSE IF parcellated.raised # NoExc THEN parcellated.raised
               ELSE IF index # 0 /\ ~broadcasts_to(z_shape, group_z_matrix.shape)
               THEN Raise("ValueError", "operands could not be broadcast together")
               ELSE NoExc
       IN  /\ calls' = Append(calls, <<"nib.load", filename>>)
           /\ IF failure # NoExc
              THEN /\ raised' = failure
                   /\ kpc' = "raised"
                   /\ UNCHANGED <<index, group_z_matrix, timeseries>>
              ELSE /\ timeseries' = parcellated.result
                   /\ group_z_matrix' =
                         IF index = 0 THEN [shape |-> z_shape] ELSE group_z_matrix
                   /\ index' = index + 1
                   /\ UNCHANGED <<kpc, raised>>
    /\ UNCHANGED <<collection, correlation, parcellation_data, result>>
    /\ UNCHANGED <<cli, args, files, fs, fs0, pc, exc, log,
                   output_file, output_gradients, lambdas>>

\* gradients.py:108
MatrixReturn ==
    /\ kpc = "loop" /\ index = Len(collection)
    /\ result' = group_z_matrix
    /\ kpc' = "returned"
    /\ UNCHANGED <<collection, correlation, index, group_z_matrix,
                   timeseries, parcellation_data, raised>>
    /\ UNCHANGED mainVars

NextMatrix ==
    MatrixNoFiles \/ MatrixLoadParcellation \/ MatrixProcessFile \/ MatrixReturn

SpecMatrix == InitMatrix /\ [][NextMatrix]_vars

\* the elements of an image that are not its last (time) axis
NonTimeElements(image) ==
    LET shape == get_nifti_gifti_data(image).value.shape
    IN  Product(SubSeq(shape, 1, Len(shape) - 1))

\* the distinct labels of an image
DistinctLabels(image) ==
    LET labels == get_nifti_gifti_data(image).value.data
    IN  {labels[j] : j \in 1..Len(labels)}

\* C22 (as claimed): with a parcellation the connectivity matrix returned is
\* P x P, P the number of distinct labels of the parcellation, for volume
\* and surface files alike; without one it is F x F, F the number of
\* non-time elements of one timeseries file.
C22_MatrixIsSquareOverParcelsOrElements ==
    kpc = "returned" =>
        LET n == IF args.parcellation_file.given
                 THEN Cardinality(DistinctLabels(fs[args.parcellation_file.val]))
                 ELSE NonTimeElements(fs[collection[1]])
        IN  result.shape = <<n, n>>

----------------------------------------------------------------------------
(* ba_timeseries_gradients.cli._get_bids_files.  The namespace is the      *)
(* attribute dictionary of the parsed arguments: the destinations in the   *)
(* order the parser declares them, each with its value.  The arguments of  *)
(* the BrainSpace and other groups, none of whose destinations starts with *)
(* bids_, are represented by parcellation.                                 *)

Dest_bids_dir == <<"b", "i", "d", "s", "_", "d", "i", "r">>
Dest_output_dir == <<"o", "u", "t", "p", "u", "t", "_", "d", "i", "r">>
Dest_analysis_level == <<"a", "n", "a", "l", "y", "s", "i", "s", "_", "l", "e", "v", "e", "l">>
Dest_bids_subject == <<"b", "i", "d", "s", "_", "s", "u", "b", "j", "e", "c", "t">>
Dest_bids_session == <<"b", "i", "d", "s", "_", "s", "e", "s", "s", "i", "o", "n">>
Dest_bids_suffix == <<"b", "i", "d", "s", "_", "s", "u", "f", "f", "i", "x">>
Dest_bids_run == <<"b", "i", "d", "s", "_", "r", "u", "n">>
Dest_bids_task == <<"b", "i", "d", "s", "_", "t", "a", "s", "k">>
Dest_bids_space == <<"b", "i", "d", "s", "_", "s", "p", "a", "c", "e">>
Dest_bids_extension == <<"b", "i", "d", "s", "_", "e", "x", "t", "e", "n", "s", "i", "o", "n">>
Dest_bids_datatype == <<"b", "i", "d", "s", "_", "d", "a", "t", "a", "t", "y", "p", "e">>
Dest_parcellation == <<"p", "a", "r", "c", "e", "l", "l", "a", "t", "i", "o", "n">>
Str_bids_ == <<"b", "i", "d", "s", "_">>
Str_bold == <<"b", "o", "l", "d">>
Str_T1w == <<"T", "1", "w">>
Str_MNI == <<"M", "N", "I">>
Str_func == <<"f", "u", "n", "c">>
Str_rest == <<"r", "e", "s", "t">>
Str_01 == <<"0", "1">>
Str_group == <<"g", "r", "o", "u", "p">>
Str_in == <<"i", "n">>
Str_out == <<"o", "u", "t">>

PyNone == [type |-> "NoneType"]
PyStr(v) == [type |-> "str", val |-> v]
PyList(v) == [type |-> "list", val |-> v]
PyPath(v) == [type |-> "Path", val |-> v]

\* bool(value): None, '' and [] are false; a Path is always true
truthy(value) ==
    CASE value.type = "NoneType" -> FALSE
      [] value.type \in {"str", "list"} -> value.val # <<>>
      [] OTHER -> TRUE

\* str.startswith(prefix)
StartsWith(s, prefix) ==
    /\ Len(s) >= Len(prefix)
    /\ SubSeq(s, 1, Len(prefix)) = prefix

\* str.replace(old, ''): every occurrence of old is removed, left to right
RECURSIVE replace_by_empty(_, _)
replace_by_empty(s, old) ==
    IF Len(s) < Len(old) THEN s
    ELSE IF SubSeq(s, 1, Len(old)) = old
    THEN replace_by_empty(SubSeq(s, Len(old) + 1, Len(s)), old)
    ELSE <<s[1]>> \o replace_by_empty(Tail(s), old)

\* cli.py:76-165 : the destinations in the order of declaration
Dests == <<Dest_bids_dir, Dest_output_dir, Dest_analysis_level,
           Dest_bids_subject, Dest_bids_session, Dest_bids_suffix,
           Dest_bids_run, Dest_bids_task, Dest_bids_space,
           Dest_bids_extension, Dest_bids_datatype, Dest_parcellation>>

\* the destinations of the options of the BIDS group
BidsOptionDests == {Dests[i] : i \in 4..11}

\* cli.py:93-165 : default= of each option
Defaults ==
    [dest \in {Dests[i] : i \in 4..12} |->
        IF dest = Dest_bids_suffix THEN PyStr(Str_bold)
        ELSE IF dest = Dest_bids_extension THEN PyStr(Str_dot_nii_gz)
        ELSE PyNone]

\* what the command line gives for each option: nothing, or a value (a list
\* of values for action="append")
Unsupplied == [type |-> "unsupplied"]
SubjectArguments == {Unsupplied, PyList(<<Str_01>>)}
SessionArguments == {Unsupplied, PyList(<<Str_01>>)}
SuffixArguments == {Unsupplied, PyStr(Str_T1w), PyStr(<<>>)}
RunArguments == {Unsupplied, PyList(<<0>>), PyList(<<1, 2>>)}
TaskArguments == {Unsupplied, PyList(<<Str_rest>>)}
SpaceArguments == {Unsupplied, PyStr(Str_MNI), PyStr(<<>>)}
ExtensionArguments == {Unsupplied, PyStr(Str_dot_gii), PyStr(<<>>)}
DatatypeArguments == {Unsupplied, PyStr(Str_func)}
ParcellationArguments == {Unsupplied, PyPath(File_parcellation)}

\* parse_args: the three positionals, and each option as supplied or at its
\* default
bids_parse_args(argv) ==
    [dest \in {Dests[i] : i \in 1..Len(Dests)} |->
        IF dest = Dest_bids_dir THEN PyPath(Str_in)
        ELSE IF dest = Dest_output_dir THEN PyPath(Str_out)
        ELSE IF dest = Dest_analysis_level THEN PyStr(Str_group)
        ELSE IF argv[dest] = Unsupplied THEN Defaults[dest]
        ELSE argv[dest]]

\* the filter without the test of the value
selected_with_empty(key, value) ==
    StartsWith(key, Str_bids_) /\ key # Dest_bids_dir

\* cli.py:267 : the condition of the comprehension
selected(key, value) ==
    StartsWith(key, Str_bids_) /\ key # Dest_bids_dir /\ truthy(value)

\* cli.py:264-268 : the dictionary comprehension; for a key produced twice
\* the later item wins
search_args(namespace) ==
    LET chosen == {i \in 1..Len(Dests) : selected(Dests[i], namespace[Dests[i]])}
        KeyOf(i) == replace_by_empty(Dests[i], Str_bids_)
    IN  [key \in {KeyOf(i) : i \in chosen} |->
            namespace[Dests[Max({i \in chosen : KeyOf(i) = key})]]]

InitBids ==
    /\ cli = "ba"
    /\ pc = "start"
    /\ \E subject \in SubjectArguments, session \in SessionArguments,
          suffix \in SuffixArguments, run \in RunArguments,
          task \in TaskArguments, space \in SpaceArguments,
          extension \in ExtensionArguments, datatype \in DatatypeArguments,
          parcellation \in ParcellationArguments :
          LET argv == (Dest_bids_subject :> subject) @@ (Dest_bids_session :> session)
                      @@ (Dest_bids_suffix :> suffix) @@ (Dest_bids_run :> run)
                      @@ (Dest_bids_task :> task) @@ (Dest_bids_space :> space)
                      @@ (Dest_bids_extension :> extension)
                      @@ (Dest_bids_datatype :> datatype)
                      @@ (Dest_parcellation :> parcellation)
          IN  args = [argv |-> argv, namespace |-> bids_parse_args(argv)]
    /\ files = <<>>
    /\ fs = <<>> /\ fs0 = <<>>
    /\ exc = NoExc /\ calls = <<>> /\ log = <<>>
    /\ output_file = <<>> /\ output_gradients = <<>> /\ lambdas = <<>>
    /\ KernelIdle

\* cli.py:254-276 : the layout is built on bids_dir and queried once; what
\* it finds is up to the data set
GetBidsFiles ==
    /\ pc = "start"
    /\ calls' = <<[call |-> "bids.BIDSLayout", root |-> args.namespace[Dest_bids_dir],
                   validate |-> FALSE],
                  [call |-> "layout.get", return_type |-> "filename",
                   filters |-> search_args(args.namespace)]>>
    /\ files' \in NameLists
    /\ log' = log \o <<[level |-> "info", msg |-> "Found %d input files.",
                        arg |-> Len(files')],
                       [level |-> "debug", msg |-> "Input files: %s", arg |-> files']>>
    /\ pc' = "got_files"
    /\ UNCHANGED <<cli, args, fs, fs0, exc, output_file, output_gradients, lambdas>>
    /\ UNCHANGED kernelVars

NextBids == GetBidsFiles

SpecBids == InitBids /\ [][NextBids]_vars

\* the destination without its first five characters
WithoutPrefix(dest) == SubSeq(dest, Len(Str_bids_) + 1, Len(dest))

\* C23: the layout is queried with exactly one filter per argument whose
\* destination starts with 'bids_' and whose value is not empty, under the
\* destination without that prefix and with the value parsed; bids_dir is
\* never a filter, an option not supplied whose default is None is not a
\* filter, and suffix and extension not supplied are the filters 'bold' and
\* '.nii.gz'.
C23_OneFilterPerBidsArgument ==
    pc = "got_files" =>
        LET filters == calls[2].filters
            ns == args.namespace
            nonempty == {d \in BidsOptionDests :
                            ns[d] # PyNone /\ ns[d].val # <<>>}
        IN  /\ Len(calls) = 2
            /\ DOMAIN filters = {WithoutPrefix(d) : d \in nonempty}
            /\ \A d \in nonempty : filters[WithoutPrefix(d)] = ns[d]
            /\ WithoutPrefix(Dest_bids_dir) \notin DOMAIN filters
            /\ \A d \in BidsOptionDests :
                  (args.argv[d] = Unsupplied /\ Defaults[d] = PyNone)
                     => WithoutPrefix(d) \notin DOMAIN filters
            /\ args.argv[Dest_bids_suffix] = Unsupplied
                  => filters[WithoutPrefix(Dest_bids_suffix)] = PyStr(Str_bold)
            /\ args.argv[Dest_bids_extension] = Unsupplied
                  => filters[WithoutPrefix(Dest_bids_extension)] = PyStr(Str_dot_nii_gz)

C23_Witness ==
    /\ pc = "got_files"
    /\ args.argv[Dest_bids_subject] = PyList(<<Str_01>>)
    /\ args.argv[Dest_bids_suffix] = Unsupplied
    /\ args.argv[Dest_bids_space] = PyStr(<<>>)
    /\ DOMAIN calls[2].filters =
          {WithoutPrefix(Dest_bids_subject), WithoutPrefix(Dest_bids_suffix),
           WithoutPrefix(Dest_bids_extension)}

----------------------------------------------------------------------------
(* What _get_connectivity_matrix loads.                                    *)

\* the loads of a run that goes through its first n files
LoadsThrough(n) ==
    (IF args.parcellation_file.given
     THEN <<<<"nib.load", args.parcellation_file.val>>>> ELSE <<>>)
    \o [i \in 1..n |-> <<"nib.load", collection[i]>>]

\* C24: called with an empty collection, _get_connectivity_matrix raises
\* ValueError('No files provided.') and has loaded nothing, the parcellation
\* included; for a collection that is not empty the parcellation (if one is
\* given) is loaded once, first, and then the files are loaded once each in
\* the order of the collection: all of them by the time the matrix is
\* returned, and those up to the failing one if an exception ends the run.
C24_NothingLoadedWithoutFilesEachOnceOtherwise ==
    /\ (Len(collection) = 0 /\ kpc # "called")
          => /\ kpc = "raised"
             /\ raised = Raise("ValueError", "No files provided.")
             /\ calls = <<>>
    /\ (Len(collection) # 0 /\ kpc \in {"loop", "returned"})
          => calls = LoadsThrough(index)
    /\ (Len(collection) # 0 /\ kpc = "returned")
          => index = Len(collection)
    /\ (Len(collection) # 0 /\ kpc = "raised")
          => \E n \in 0..Len(collection) :
                calls = LoadsThrough(n)

C24_Witness ==
    /\ kpc = "returned"
    /\ Len(collection) = 2
    /\ collection[1] # collection[2]
    /\ args.parcellation_file.given
    /\ calls = <<<<"nib.load", args.parcellation_file.val>>,
                 <<"nib.load", collection[1]>>, <<"nib.load", collection[2]>>>>

C24_WitnessNoFiles ==
    /\ kpc = "raised"
    /\ Len(collection) = 0
    /\ args.parcellation_file.given
    /\ calls = <<>>

----------------------------------------------------------------------------
(* gradients._get_nifti_gifti_data called on its own, with any image.      *)

MaxArrays == 2      \* most data arrays of a GIFTI image

\* Nifti2Image derives from Nifti1Image
NiftiClasses == {"Nifti1Image", "Nifti2Image"}
\* some of the other classes of image that nib.load returns
OtherClasses == {"Nifti1Pair", "AnalyzeImage", "MGHImage", "Cifti2Image"}

DataArrays == Arrays1D \cup Arrays2D

Images ==
    {[class |-> c, dataobj |-> a] : c \in NiftiClasses \cup OtherClasses,
                                    a \in DataArrays}
    \cup {GiftiImage(arrays) :
            arrays \in UNION {[1..n -> DataArrays] : n \in 0..MaxArrays}}

InitImage ==
    /\ kpc = "called"
    /\ \E image \in Images : args = [image |-> image]
    /\ collection = <<>>
    /\ correlation = <<>>
    /\ index = 0
    /\ group_z_matrix = <<>>
    /\ timeseries = <<>>
    /\ parcellation_data = <<>>
    /\ result = <<>>
    /\ raised = NoExc
    /\ cli = "none" /\ files = <<>> /\ fs = <<>> /\ fs0 = <<>>
    /\ pc = "idle" /\ exc = NoExc /\ calls = <<>> /\ log = <<>>
    /\ output_file = <<>> /\ output_gradients = <<>> /\ lambdas = <<>>

\* gradients.py:137-152
GetNiftiGiftiData ==
    /\ kpc = "called"
    /\ LET got == get_nifti_gifti_data(args.image)
       IN  /\ result' = got.value
           /\ raised' = got.raised
           /\ kpc' = IF got.raised = NoExc THEN "returned" ELSE "raised"
    /\ log' = IF args.image.class \in NiftiClasses
              THEN Append(log, [level |-> "debug", msg |-> "Loading NIfTI data..."])
              ELSE IF args.image.class = "GiftiImage"
              THEN Append(log, [level |-> "debug", msg |-> "Loading GIFTI data..."])
              ELSE log
    /\ UNCHANGED <<collection, correlation, index, group_z_matrix,
                   timeseries, parcellation_data>>
    /\ UNCHANGED <<cli, args, files, fs, fs0, pc, exc, calls,
                   output_file, output_gradients, lambdas>>

NextImage == GetNiftiGiftiData

SpecImage == InitImage /\ [][NextImage]_vars

\* C25: _get_nifti_gifti_data returns the whole data array of a NIfTI
\* image, the data of the first data array (and of no other) of a GIFTI
\* image that has one, and raises InputError for an image of any other
\* class; data is returned for NIfTI and GIFTI images only.
C25_DataOfNiftiOrFirstGiftiArrayElseInputError ==
    kpc # "called" =>
        LET image == args.image
        IN  /\ image.class \in NiftiClasses
                  => kpc = "returned" /\ result = image.dataobj
            /\ (image.class = "GiftiImage" /\ image.darrays # <<>>)
                  => kpc = "returned" /\ result = image.darrays[1].data
            /\ image.class \notin NiftiClasses \cup {"GiftiImage"}
                  => /\ kpc = "raised"
                     /\ raised = Raise("InputError",
                                   "Input image must be a NIfTI or GIFTI image.")
                     /\ result = <<>>
            /\ kpc = "returned" => image.class \in NiftiClasses \cup {"GiftiImage"}

C25_Witness ==
    /\ kpc = "returned"
    /\ args.image.class = "GiftiImage"
    /\ Len(args.image.darrays) = 2
    /\ args.image.darrays[1].data # args.image.darrays[2].data
    /\ result = args.image.darrays[1].data

----------------------------------------------------------------------------
(* grag_brainspace.cli._save_numpy_array called on its own, with file      *)
(* names of several suffixes.                                              *)

File_out_tsv == <<"o", "u", "t", ".", "t", "s", "v">>
File_out_csv == <<"o", "u", "t", ".", "c", "s", "v">>
File_out_unknown == <<"o", "u", "t", ".", "u", "n", "k", "n", "o", "w", "n">>
Str_dot_tsv == <<".", "t", "s", "v">>
Str_dot_csv == <<".", "c", "s", "v">>

NumpyPaths == {File_out_h5, File_out_tsv, File_out_csv, File_out_unknown}

InitNumpy ==
    /\ cli = "none"
    /\ args = <<>>
    /\ files = <<>>
    /\ output_file \in NumpyPaths
    /\ fs \in {[p \in NumpyPaths |-> IF p = output_file THEN old ELSE Absent] :
                  old \in {Absent, OldH5}}
    /\ fs0 = fs
    /\ pc = "computed"
    /\ exc = NoExc
    /\ calls = <<>>
    /\ log = <<>>
    /\ output_gradients \in Arrays2D
    /\ lambdas \in Arrays1D
    /\ KernelIdle

\* cli.py:45-59 : _save_numpy_array(output_gradients, lambdas, filename)
CallSaveNumpyArray ==
    /\ cli = "none" /\ pc = "computed"
    /\ LET r == save_numpy_array(output_gradients, lambdas, output_file, fs)
       IN  /\ fs' = r.fs
           /\ exc' = r.exc
           /\ calls' = Append(calls, r.writer)
    /\ pc' = "saved"
    /\ UNCHANGED <<cli, args, files, fs0, log,
                   output_file, output_gradients, lambdas>>
    /\ UNCHANGED kernelVars

NextNumpy == CallSaveNumpyArray

SpecNumpy == InitNumpy /\ [][NextNumpy]_vars

\* a text file of the rows of array a, its values separated by delimiter
\* (np.savetxt), which np.loadtxt with that delimiter reads back as a
TextOf(a, delimiter) == [kind |-> "text", delimiter |-> delimiter, array |-> a]

\* C26 (as claimed): _save_numpy_array writes the format the suffix of the
\* file name stands for: an HDF5 file for '.h5', tab-separated text for
\* '.tsv', comma-separated text for '.csv', and for any other suffix
\* comma-separated text after exactly one warning; read back in that
\* format, the file yields the array saved.
C26_FormatFromSuffix ==
    pc = "saved" =>
        LET suffix == PathSuffix(output_file)
            content == fs[output_file]
            warnings == SelectSeq(log, LAMBDA entry : entry.level = "warning")
        IN  /\ suffix = Str_dot_h5
                  => /\ content.kind = "h5"
                     /\ \E name \in DOMAIN content.datasets :
                           content.datasets[name] = output_gradients
            /\ suffix = Str_dot_tsv => content = TextOf(output_gradients, "\t")
            /\ suffix = Str_dot_csv => content = TextOf(output_gradients, ",")
            /\ suffix \notin {Str_dot_h5, Str_dot_tsv, Str_dot_csv}
                  => /\ content = TextOf(output_gradients, ",")
                     /\ Len(warnings) = 1
            /\ suffix \in {Str_dot_h5, Str_dot_tsv, Str_dot_csv} => Len(warnings) = 0

----------------------------------------------------------------------------
(* The order of the collection.                                            *)

\* the orders of n files
Orders(n) == {order \in [1..n -> 1..n] : \A i, j \in 1..n : order[i] = order[j] => i = j}

\* the accumulator of _get_connectivity_matrix after the first k of the
\* files, k >= 1, taken in this order (gradients.py:90-106)
RECURSIVE GroupAfter(_, _)
GroupAfter(ordered, k) ==
    LET z_matrix == arctanh_array(CorrMatrix(correlation[ordered[k]]))
    IN  accumulate(k - 1,
                   IF k = 1 THEN <<>> ELSE GroupAfter(ordered, k - 1),
                   z_matrix, Len(ordered))

\* C27: the matrix returned does not depend on the order of the collection:
\* run on any reordering of the same files, _get_connectivity_matrix ends
\* with the same accumulator and returns the same matrix; and after k files
\* the accumulator is the sum of the first k z matrices divided by the
\* number of files of the collection.
C27_OrderOfFilesIsIrrelevant ==
    /\ (kpc = "loop" /\ index >= 1)
          => \A e \in 1..4 :
                group_z_matrix.data[e] =
                    ZDiv(ZSumOfEntry(e, index), Len(collection))
    /\ kpc = "returned"
          => \A order \in Orders(Len(collection)) :
                LET reordered == [i \in 1..Len(collection) |-> collection[order[i]]]
                    group == GroupAfter(reordered, Len(collection))
                IN  /\ group = group_z_matrix
                    /\ tanh_array(group) = result

C27_Witness ==
    /\ kpc = "returned"
    /\ Len(collection) = 2
    /\ correlation[collection[1]] = Rat("rat", 1, 2)
    /\ correlation[collection[2]] = Rat("rat", -4, 5)
    /\ result = tanh_array(GroupAfter(<<collection[2], collection[1]>>, 2))

----------------------------------------------------------------------------
(* InternalError and the main of ba_timeseries_gradients.                  *)

====
